---- MODULE Spec2Model ----
(***************************************************************************)
(* Celestial Walker: camera manager, interaction manager, animation loop   *)
(* and scene lifecycle, as a state machine.                                *)
(*                                                                         *)
(* The program state that the handlers read and write is gathered in one   *)
(* record (the "store"); every operation of the source is an operator      *)
(* from store to store, so that a handler that calls other operations is   *)
(* their sequential composition.  An action applies one handler to the     *)
(* current store, runs the Vue watchers that the handler's writes have     *)
(* queued (Vue flushes them in a microtask, before any other event, GSAP   *)
(* tick or frame can run) and commits the result.                          *)
(*                                                                         *)
(* Positions (camera.position, controls.target, world positions) are       *)
(* modelled by one integer coordinate.  A GSAP tween renders AnimSteps     *)
(* times; its last render is followed by its onComplete.  kill() makes a   *)
(* tween inert: GSAP never calls onUpdate or onComplete of a killed tween. *)
(***************************************************************************)
EXTENDS Integers, Sequences, FiniteSets, TLC

\* ------------------------------------------------------------------ bounds
\* number of renders of one tween (the last one completes it)
AnimSteps == 2
\* reset tweens that may be in flight together (resetCamera never tracks them)
MaxResetTweens == 1
\* frames in one orbital period of the moving body
PeriodFrames == 2
\* times the scene component is mounted
MaxMounts == 2
\* frame requests that can be pending at once
MaxHandles == 2
\* objects a ray through the mouse position crosses
MaxHits == 3
\* binary places a number is kept to
FractionBits == 12

\* --------------------------------------------------------------- constants
\* JS null
Null == "null"
\* the bodies registered in celestialBodies for the mounted scene
Bodies == {"sun", "earth"}
BodyOrNull == Bodies \cup {Null}

\* Positions are points of a coarse integer axis: the places the code names
\* keep their order and stay distinct, their magnitudes are not kept.  unit is
\* the length of one step of the axis; it is fixed by Init.  A specification
\* whose claims read no position starts with unit = 0, which puts every
\* position at the origin (no operation reads a position to decide anything
\* but another position).
VARIABLE unit
Place == [origin |-> 0, planetOrbit |-> 2 * unit, initial |-> 6 * unit,
          tactical |-> 8 * unit]

\* configs/scene.config.ts cameraInitialPosition
cameraInitialPosition == Place.initial
\* useCameraManager.ts TACTICAL_VIEW_HEIGHT, the camera position (0, 3950, 0)
TACTICAL_VIEW_HEIGHT == Place.tactical
\* new Vector3(0, 0, 0)
Origin == Place.origin

\* mesh.getWorldPosition at simulated time t: the sun stays at the origin,
\* the planet is moved by the simulation every frame
WorldPosition(body, t) ==
  IF body = "sun" THEN Origin ELSE Place.planetOrbit + t * unit

\* distanceToFit * FOCAL_LENGTH_MULTIPLIER, from the body's bounding sphere
FinalDistance(body) ==
  IF body = "sun" THEN 2 * unit ELSE unit

\* Vector3.lerp(end, progress) from start, progress = step / AnimSteps
Lerp(start, end, step) ==
  start + ((end - start) * step) \div AnimSteps

\* Vector3.length() > 0
HasLength(v) == v # 0

\* ------------------------------------------------------------------- state
VARIABLES
  selectedBody,            \* interactionState.selectedBody
  hoveredBody,             \* interactionState.hoveredBody
  isCameraFollowing,       \* interactionState.isCameraFollowing
  isTacticalViewActive,    \* interactionState.isTacticalViewActive
  focusAnimation,          \* useCameraManager module-level tween reference
  tacticalAnimation,       \* useCameraManager module-level tween reference
  resetTweens,             \* the untracked tweens started by resetCamera
  cameraPosition,          \* camera.position
  controlsTarget,          \* controls.target
  lastTargetPosition,      \* useCameraManager lastTargetPosition
  preTacticalCameraState,  \* useCameraManager preTacticalCameraState
  simulatedTime,           \* useAnimationLoop simulatedTime (modulo the period)
  mouse,                   \* the objects the ray through the mouse position crosses, nearest first
  outlinedObjects,         \* effectsState.outlinedObjects
  outlineColor,            \* effectsState.outlineColor
  lineMaterials,           \* material.color and material.opacity of each orbit line, by the orbit's bodyId
  originalLineMaterials,   \* useInteractionManager originalLineMaterials
  log,                     \* the calls made by the last handler, in order
  intersectionSearches,    \* the calls of findIntersectedBody made by the last handler
  calc,                    \* a call of a pure function: its arguments and what it returned
  normalView,              \* history: camera state when tactical view was last entered from the normal view
  mounted,                 \* the mounted component instance (0: none); instances are numbered by mount
  mounts,                  \* component instances created so far
  instance,                \* per instance: useSceneOrchestrator's flags, loop and the position of its load
  solarSystemData,         \* useSolarSystemData module-level data
  celestialBodies,         \* visualisationState.celestialBodies
  orbits,                  \* visualisationState.orbits
  createdMeshes,           \* useCelestialBodyFactory module-level createdMeshes
  orbitalDataMap,          \* useSimulationManager module-level orbitalDataMap: the ids with a period
  disposedMeshes,          \* meshes whose geometry and material were disposed
  factoryMeshes,           \* every mesh useCelestialBodyFactory has constructed
  windowSize,              \* window.innerWidth, window.innerHeight
  cameraAspect,            \* camera.aspect of the scene mounted last, as a fraction
  rendererSize,            \* the size of its renderer
  composerSize,            \* the size of its post-processing composer
  animationFrameId,        \* useAnimationLoop module-level animationFrameId (0: none or cancelled)
  pendingFrames            \* the frame requests not yet run or cancelled: handle and loop

vars == <<selectedBody, hoveredBody, isCameraFollowing, isTacticalViewActive,
          focusAnimation, tacticalAnimation, resetTweens, cameraPosition,
          controlsTarget, lastTargetPosition, preTacticalCameraState,
          simulatedTime, mouse, outlinedObjects, outlineColor, lineMaterials,
          originalLineMaterials, log, intersectionSearches,
          calc, normalView, unit, mounted, mounts, instance, solarSystemData, celestialBodies,
          orbits, createdMeshes, orbitalDataMap, disposedMeshes,
          factoryMeshes, windowSize, cameraAspect, rendererSize, composerSize,
          animationFrameId, pendingFrames>>

\* the camera manager's and interaction manager's part of the state
cameraVars ==
  <<selectedBody, hoveredBody, isCameraFollowing, isTacticalViewActive,
    focusAnimation, tacticalAnimation, resetTweens, cameraPosition,
    controlsTarget, lastTargetPosition, preTacticalCameraState,
    simulatedTime, mouse, outlinedObjects, outlineColor, lineMaterials,
    originalLineMaterials, log, intersectionSearches, calc, normalView, unit>>

\* the scene lifecycle's part of the state
sceneVars ==
  <<mounted, mounts, instance, solarSystemData, celestialBodies, orbits,
    createdMeshes, orbitalDataMap, disposedMeshes, factoryMeshes, windowSize,
    cameraAspect, rendererSize, composerSize, animationFrameId, pendingFrames>>

\* the current store, with an empty call log
Cur ==
  [selectedBody |-> selectedBody, hoveredBody |-> hoveredBody,
   isCameraFollowing |-> isCameraFollowing,
   isTacticalViewActive |-> isTacticalViewActive,
   focusAnimation |-> focusAnimation, tacticalAnimation |-> tacticalAnimation,
   resetTweens |-> resetTweens, cameraPosition |-> cameraPosition,
   controlsTarget |-> controlsTarget, lastTargetPosition |-> lastTargetPosition,
   preTacticalCameraState |-> preTacticalCameraState,
   simulatedTime |-> simulatedTime, mouse |-> mouse,
   outlinedObjects |-> outlinedObjects, outlineColor |-> outlineColor,
   lineMaterials |-> lineMaterials,
   originalLineMaterials |-> originalLineMaterials,
   log |-> <<>>, intersectionSearches |-> 0]

\* let focusAnimation: gsap.core.Tween | null = null
NoFocusTween ==
  [st |-> "null", body |-> Null, startCamPos |-> 0, startTargetPos |-> 0, progress |-> 0]

\* let tacticalAnimation: gsap.core.Tween | null = null
NoTacticalTween ==
  [st |-> "null", kind |-> "none", startCamPos |-> 0, startTargetPos |-> 0,
   endCamPos |-> 0, endTargetPos |-> 0, progress |-> 0]

\* tween.kill(): the tween stops rendering and never completes; the variable
\* that referred to it still refers to it
Kill(tween, none) ==
  IF tween.st = "active" THEN [none EXCEPT !.st = "killed"] ELSE tween

InFlight(tween) == tween.st = "active"

Logged(s, call) == [s EXCEPT !.log = Append(@, call)]

\* if (focusAnimation) focusAnimation.kill()
KillFocus(s) ==
  IF InFlight(s.focusAnimation)
    THEN Logged([s EXCEPT !.focusAnimation = Kill(@, NoFocusTween)], "focusAnimation.kill")
    ELSE s

\* if (tacticalAnimation) tacticalAnimation.kill()
KillTactical(s) ==
  IF InFlight(s.tacticalAnimation)
    THEN Logged([s EXCEPT !.tacticalAnimation = Kill(@, NoTacticalTween)], "tacticalAnimation.kill")
    ELSE s

\* ------------------------------------------------------ camera manager
\* focusOnBody, lines 57-122 (every registered body has a mesh and a
\* bounding sphere, so neither early return is taken)
focusOnBody(s, body) ==
  Logged([KillTactical(KillFocus(s)) EXCEPT
    !.isCameraFollowing = FALSE,
    !.isTacticalViewActive = FALSE,
    !.focusAnimation =
        [st |-> "active", body |-> body, startCamPos |-> s.cameraPosition,
         startTargetPos |-> s.controlsTarget, progress |-> 0]],
    "focusOnBody")

\* the focus tween, but its onComplete leaves isCameraFollowing as it is
focusAnimationTick_staysOff(s) ==
  LET tw == s.focusAnimation
      step == tw.progress + 1
      endTargetPos == WorldPosition(tw.body, s.simulatedTime)
      endCamPos == endTargetPos + FinalDistance(tw.body)
      updated == [s EXCEPT
        !.cameraPosition = Lerp(tw.startCamPos, endCamPos, step),
        !.controlsTarget = Lerp(tw.startTargetPos, endTargetPos, step),
        !.focusAnimation = [@ EXCEPT !.progress = step,
            !.startCamPos = IF step = AnimSteps - 1 THEN 0 ELSE @,
            !.startTargetPos = IF step = AnimSteps - 1 THEN 0 ELSE @]]
  IN IF step < AnimSteps
       THEN Logged(updated, "focus.onUpdate")
       ELSE Logged([updated EXCEPT
              !.lastTargetPosition = WorldPosition(tw.body, s.simulatedTime),
              !.outlinedObjects = <<>>,
              !.focusAnimation = NoFocusTween],
              "focus.onComplete")

\* one GSAP tick of the focus tween: onUpdate, and after the last render
\* onComplete
focusAnimationTick(s) ==
  LET tw == s.focusAnimation
      step == tw.progress + 1
      endTargetPos == WorldPosition(tw.body, s.simulatedTime)
      endCamPos == endTargetPos + FinalDistance(tw.body)
      updated == [s EXCEPT
        !.cameraPosition = Lerp(tw.startCamPos, endCamPos, step),
        !.controlsTarget = Lerp(tw.startTargetPos, endTargetPos, step),
        !.focusAnimation = [@ EXCEPT !.progress = step,
            !.startCamPos = IF step = AnimSteps - 1 THEN 0 ELSE @,
            !.startTargetPos = IF step = AnimSteps - 1 THEN 0 ELSE @]]
  IN IF step < AnimSteps
       THEN Logged(updated, "focus.onUpdate")
       ELSE Logged([updated EXCEPT
              !.isCameraFollowing = TRUE,
              !.lastTargetPosition = WorldPosition(tw.body, s.simulatedTime),
              !.outlinedObjects = <<>>,
              !.focusAnimation = NoFocusTween],
              "focus.onComplete")

\* enterTacticalView, but isCameraFollowing is left as it is
enterTacticalView_keepsFollowing(s) ==
  Logged([KillTactical(KillFocus(s)) EXCEPT
    !.preTacticalCameraState =
        [position |-> s.cameraPosition, target |-> s.controlsTarget,
         wasFollowing |-> s.isCameraFollowing],
    !.tacticalAnimation =
        [st |-> "active", kind |-> "enter", startCamPos |-> s.cameraPosition,
         startTargetPos |-> s.controlsTarget, endCamPos |-> TACTICAL_VIEW_HEIGHT,
         endTargetPos |-> Origin, progress |-> 0]],
    "enterTacticalView")

\* enterTacticalView, lines 127-165
enterTacticalView(s) ==
  Logged([KillTactical(KillFocus(s)) EXCEPT
    !.preTacticalCameraState =
        [position |-> s.cameraPosition, target |-> s.controlsTarget,
         wasFollowing |-> s.isCameraFollowing],
    !.isCameraFollowing = FALSE,
    !.tacticalAnimation =
        [st |-> "active", kind |-> "enter", startCamPos |-> s.cameraPosition,
         startTargetPos |-> s.controlsTarget, endCamPos |-> TACTICAL_VIEW_HEIGHT,
         endTargetPos |-> Origin, progress |-> 0]],
    "enterTacticalView")

\* exitTacticalView, lines 170-207
exitTacticalView(s) ==
  LET pre == s.preTacticalCameraState
  IN Logged([KillTactical(s) EXCEPT
       !.tacticalAnimation =
         [st |-> "active", kind |-> "exit", startCamPos |-> s.cameraPosition,
          startTargetPos |-> s.controlsTarget,
          endCamPos |-> IF HasLength(pre.position) THEN pre.position
                        ELSE cameraInitialPosition,
          endTargetPos |-> IF HasLength(pre.target) THEN pre.target ELSE Origin,
          progress |-> 0]],
       "exitTacticalView")

\* one GSAP tick of the tactical tween (entry or exit): onUpdate, and after
\* the last render onComplete
tacticalAnimationTick(s) ==
  LET tw == s.tacticalAnimation
      step == tw.progress + 1
      updated == [s EXCEPT
        !.cameraPosition = Lerp(tw.startCamPos, tw.endCamPos, step),
        !.controlsTarget = Lerp(tw.startTargetPos, tw.endTargetPos, step),
        !.tacticalAnimation = [@ EXCEPT !.progress = step,
            !.startCamPos = IF step = AnimSteps - 1 THEN 0 ELSE @,
            !.startTargetPos = IF step = AnimSteps - 1 THEN 0 ELSE @]]
  IN IF step < AnimSteps
       THEN Logged(updated, "tactical.onUpdate")
       ELSE IF tw.kind = "enter"
         THEN Logged([updated EXCEPT
                !.isTacticalViewActive = TRUE,
                !.tacticalAnimation = NoTacticalTween],
                "enter.onComplete")
         ELSE Logged([updated EXCEPT
                !.isTacticalViewActive = FALSE,
                !.isCameraFollowing =
                    IF s.preTacticalCameraState.wasFollowing THEN TRUE ELSE @,
                !.tacticalAnimation = NoTacticalTween],
                "exit.onComplete")

\* toggleTacticalView, lines 212-219
toggleTacticalView(s) ==
  IF s.isTacticalViewActive THEN exitTacticalView(s) ELSE enterTacticalView(s)

\* variant of resetCamera: the tactical animation is left running
resetCamera_keepsTactical(s) ==
  Logged([KillFocus(s) EXCEPT
    !.focusAnimation = NoFocusTween,
    !.isCameraFollowing = FALSE,
    !.isTacticalViewActive = FALSE,
    !.resetTweens = Append(@, [progress |-> 0, startCamPos |-> 0, startTargetPos |-> 0])],
    "resetCamera")

\* resetCamera, lines 224-242: the two gsap.to tweens on camera.position and
\* controls.target are one entry of resetTweens; GSAP reads their start values
\* at their first render
resetCamera(s) ==
  Logged([KillTactical(KillFocus(s)) EXCEPT
    !.focusAnimation = NoFocusTween,
    !.tacticalAnimation = NoTacticalTween,
    !.isCameraFollowing = FALSE,
    !.isTacticalViewActive = FALSE,
    !.resetTweens = Append(@, [progress |-> 0, startCamPos |-> 0, startTargetPos |-> 0])],
    "resetCamera")

\* one GSAP tick of the i-th reset tween pair
resetTweenTick(s, i) ==
  LET tw == s.resetTweens[i]
      step == tw.progress + 1
      fromCam == IF tw.progress = 0 THEN s.cameraPosition ELSE tw.startCamPos
      fromTarget == IF tw.progress = 0 THEN s.controlsTarget ELSE tw.startTargetPos
      updated == [s EXCEPT
        !.cameraPosition = Lerp(fromCam, cameraInitialPosition, step),
        !.controlsTarget = Lerp(fromTarget, Origin, step)]
  IN IF step < AnimSteps
       THEN Logged([updated EXCEPT !.resetTweens[i] =
              [progress |-> step,
               startCamPos |-> IF step = AnimSteps - 1 THEN 0 ELSE fromCam,
               startTargetPos |-> IF step = AnimSteps - 1 THEN 0 ELSE fromTarget]],
              "reset.onUpdate")
       ELSE Logged([updated EXCEPT !.resetTweens =
              SubSeq(@, 1, i - 1) \o SubSeq(@, i + 1, Len(@))],
              "reset.onComplete")

\* update, lines 248-266: called once per frame
cameraManagerUpdate(s) ==
  Logged(
    IF s.isCameraFollowing /\ s.selectedBody # Null
      THEN LET currentTargetPosition == WorldPosition(s.selectedBody, s.simulatedTime)
               delta == currentTargetPosition - s.lastTargetPosition
           IN [s EXCEPT
                !.cameraPosition = @ + delta,
                !.controlsTarget = currentTargetPosition,
                !.lastTargetPosition = currentTargetPosition]
      ELSE s,
    "cameraManager.update")

\* -------------------------------------------------- interaction manager
\* mesh.name of a body's mesh (the scene loader names the mesh after the body)
MeshName(body) == body

\* An object of the scene graph, as the intersection search reads it: its
\* userData.id (null: none), the userData.id of its ancestors below the scene,
\* nearest first, and the name of the child of the scene it is under
SceneObject(id, parents, top) == [id |-> id, parents |-> parents, top |-> top]

\* the id the scene loader gives a body's orbit and its line:
\* `${id}_orbit` (useSceneLoader.ts lines 116, 182)
OrbitId(body) ==
  CASE body = "earth" -> "earth_orbit"
    [] body = "moon" -> "moon_orbit"
    [] body = "mars" -> "mars_orbit"
    [] OTHER -> "orbit"

\* String.includes('orbit') over the ids of the scene
IncludesOrbit(id) == id \in {"earth_orbit", "moon_orbit", "mars_orbit", "orbit"}

\* a body's mesh: the sun's is a child of the scene; a planet's is under its
\* system container, orbit pivot and orbital plane, none of which has an id
BodyMesh(body) ==
  IF body = "sun"
    THEN SceneObject("sun", <<>>, "sun")
    ELSE SceneObject(body, <<Null, Null, Null>>, "Orbital Plane")

\* a planet's orbit line, under the orbit pivot and the orbital plane
OrbitLine(body) == SceneObject(OrbitId(body), <<Null, Null>>, "Orbital Plane")

\* the cloud layer, a child of the earth's mesh without userData
CloudMesh == SceneObject(Null, <<"earth", Null, Null, Null>>, "Orbital Plane")

\* the starfield, a child of the scene named 'starfield'
Starfield == SceneObject(Null, <<>>, "starfield")

\* the ray crosses nothing; the ray crosses the mesh of a body and nothing else
NoHit == <<>>
Over(target) == IF target = Null THEN NoHit ELSE <<BodyMesh(target)>>

\* raycaster.intersectObjects(interactiveObjects, true), lines 144-145: the
\* objects the ray crosses under the children of the scene not named
\* 'starfield', nearest first
intersectObjects(ray) == SelectSeq(ray, LAMBDA object : object.top # "starfield")

\* the ids of the registered bodies
RegisteredBodies == {celestialBodies[i].id : i \in 1..Len(celestialBodies)}

\* findBodyById, lines 229-231
findBodyById(bodyId) == IF bodyId \in RegisteredBodies THEN bodyId ELSE Null

\* findBodyByIntersect, lines 173-181
findBodyByIntersect(intersectedObject) ==
  IF intersectedObject.id = Null THEN Null ELSE findBodyById(intersectedObject.id)

\* findOrbitByIntersect, lines 190-213: the place in orbits of the orbit
\* found, 0 if none
findOrbitByIntersect(intersectedObject) ==
  LET chain == <<intersectedObject.id>> \o intersectedObject.parents
      named == {i \in 1..Len(chain) : chain[i] # Null /\ IncludesOrbit(chain[i])}
  IN IF intersectedObject.id = Null \/ named = {}
       THEN 0
       ELSE LET orbitId == chain[CHOOSE i \in named : \A j \in named : i <= j]
                found == {i \in 1..Len(orbits) :
                            /\ \E c \in 1..Len(orbits[i].children) :
                                 orbits[i].children[c].kind = "line"
                            /\ orbits[i].id = orbitId}
            IN IF found = {} THEN 0 ELSE CHOOSE i \in found : \A j \in found : i <= j

\* the body one hit resolves to, lines 148-160, or null
ResolveIntersect(object) ==
  LET foundBody == findBodyByIntersect(object)
      foundOrbit == findOrbitByIntersect(object)
  IN IF foundBody # Null
       THEN foundBody
       ELSE IF foundOrbit # 0 THEN findBodyById(orbits[foundOrbit].bodyId) ELSE Null

\* variant of the loop of findIntersectedBody: only the nearest hit is resolved
FirstResolved_nearestOnly(intersects) ==
  IF intersects = <<>> THEN Null ELSE ResolveIntersect(Head(intersects))

\* the loop of findIntersectedBody, lines 147-161
RECURSIVE FirstResolved(_)
FirstResolved(intersects) ==
  IF intersects = <<>>
    THEN Null
    ELSE IF ResolveIntersect(Head(intersects)) # Null
      THEN ResolveIntersect(Head(intersects))
      ELSE FirstResolved(Tail(intersects))

\* findIntersectedBody, lines 140-165: the registered body the first
\* resolving hit under the mouse belongs to, or null
findIntersectedBody(s) == FirstResolved(intersectObjects(s.mouse))

\* onMouseMove, lines 237-242: the mouse position is stored; ray is what
\* the ray through it crosses
onMouseMove(s, ray) == [s EXCEPT !.mouse = ray]

\* a call of findIntersectedBody is counted
Searched(s) == [s EXCEPT !.intersectionSearches = @ + 1]

\* variant of checkHoverIntersection: a selection leaves the hovered body alone
checkHoverIntersection_keepsHover(s) ==
  Logged(
    IF s.selectedBody # Null
      THEN s
      ELSE LET bodyState == findIntersectedBody(s)
               r == Searched(s)
           IN IF bodyState # Null
                THEN IF r.hoveredBody # bodyState
                       THEN [r EXCEPT !.hoveredBody = bodyState] ELSE r
                ELSE IF r.hoveredBody # Null
                       THEN [r EXCEPT !.hoveredBody = Null] ELSE r,
    "checkHoverIntersection")

\* checkHoverIntersection, lines 248-271
checkHoverIntersection(s) ==
  Logged(
    IF s.selectedBody # Null
      THEN IF s.hoveredBody # Null THEN [s EXCEPT !.hoveredBody = Null] ELSE s
      ELSE LET bodyState == findIntersectedBody(s)
               r == Searched(s)
           IN IF bodyState # Null
                THEN IF r.hoveredBody # bodyState
                       THEN [r EXCEPT !.hoveredBody = bodyState] ELSE r
                ELSE IF r.hoveredBody # Null
                       THEN [r EXCEPT !.hoveredBody = Null] ELSE r,
    "checkHoverIntersection")

\* onClick, lines 276-287
onClick(s) ==
  LET bodyState == findIntersectedBody(s)
      r == Searched(s)
  IN Logged(IF bodyState # Null
              THEN [r EXCEPT !.selectedBody = bodyState]
              ELSE [r EXCEPT !.selectedBody = Null],
            "onClick")

\* onKeyDown, but Space clears the selection whether or not the camera follows
onKeyDown_spaceAlways(s, key) ==
  Logged(IF key = "Space" /\ s.selectedBody # Null
           THEN [s EXCEPT !.selectedBody = Null, !.hoveredBody = Null]
           ELSE IF key = "Escape"
             THEN [s EXCEPT !.hoveredBody = Null, !.selectedBody = Null]
             ELSE s,
         "onKeyDown")

\* onKeyDown, lines 293-307
onKeyDown(s, key) ==
  Logged(IF key = "Space" /\ s.selectedBody # Null /\ s.isCameraFollowing
           THEN [s EXCEPT !.selectedBody = Null, !.hoveredBody = Null]
           ELSE IF key = "Escape"
             THEN [s EXCEPT !.hoveredBody = Null, !.selectedBody = Null]
             ELSE s,
         "onKeyDown")

\* A colour channel of a THREE.Color is kept in half steps of the 8-bit
\* scale (0..510); a hex string is a triple of 8-bit channels.
\* Color.setHex(parseInt(hex, 16)) and Color.setStyle('#' + hex)
setHex(hex) == [i \in 1..3 |-> 2 * hex[i]]
\* Color.getHexString(): every channel is rounded to 8 bits
getHexString(color) == [i \in 1..3 |-> (color[i] + 1) \div 2]

\* effectsState HOVER_COLOR = new Color('#FFFFFF'), SELECT_COLOR = new Color('#00FF00')
EffectColor(name) ==
  IF name = "SELECT_COLOR" THEN setHex(<<0, 255, 0>>) ELSE setHex(<<255, 255, 255>>)

\* the opacity highlightLine gives a line, in tenths
HighlightOpacity == 8

\* createOrbitLine's LineBasicMaterial: colors.white, opacity 0.2 (in tenths)
createOrbitLine == [color |-> setHex(<<255, 255, 255>>), opacity |-> 2]

\* the bodies the pointer resolves whose registered orbit has a lineMesh
LineBodies == {"earth", "mars"}

\* findOrbitByBodyId(id)?.lineMesh, lines 220-222: the line, if there is one
HasLine(body) == body \in LineBodies

\* Map.set(key, value)
MapSet(map, key, value) ==
  [k \in DOMAIN map \cup {key} |-> IF k = key THEN value ELSE map[k]]

\* highlightLine, lines 105-120
highlightLine(s, line, colorHex) ==
  LET material == s.lineMaterials[line]
      stored == IF line \in DOMAIN s.originalLineMaterials
                  THEN s.originalLineMaterials
                  ELSE MapSet(s.originalLineMaterials, line,
                              [color |-> getHexString(material.color),
                               opacity |-> material.opacity])
  IN [s EXCEPT !.originalLineMaterials = stored,
               !.lineMaterials[line] =
                 [color |-> setHex(colorHex), opacity |-> HighlightOpacity]]

\* variant of resetAllLineMaterials: the opacity is restored, the colour is not
resetAllLineMaterials_opacityOnly(s) ==
  [s EXCEPT !.lineMaterials =
     [line \in DOMAIN @ |->
        IF line \in DOMAIN s.originalLineMaterials
          THEN [color |-> @[line].color,
                opacity |-> s.originalLineMaterials[line].opacity]
          ELSE @[line]]]

\* resetAllLineMaterials, lines 125-132
resetAllLineMaterials(s) ==
  [s EXCEPT !.lineMaterials =
     [line \in DOMAIN @ |->
        IF line \in DOMAIN s.originalLineMaterials
          THEN [color |-> setHex(s.originalLineMaterials[line].color),
                opacity |-> s.originalLineMaterials[line].opacity]
          ELSE @[line]]]

\* lines 71-79 and 82-90: the body's mesh is outlined in the colour and the
\* line of its orbit, if it has one, is highlighted in it
Outline(s, body, colorName) ==
  LET o == [s EXCEPT !.outlinedObjects = <<MeshName(body)>>,
                     !.outlineColor = colorName]
  IN IF HasLine(body)
       THEN highlightLine(o, body, getHexString(EffectColor(colorName)))
       ELSE o

\* variant of manageOutlineEffects: the hovered body takes precedence over
\* the selected one
manageOutlineEffects_hoverFirst(s) ==
  LET r == resetAllLineMaterials(s)
  IN IF r.isCameraFollowing
       THEN [r EXCEPT !.outlinedObjects = <<>>]
       ELSE IF r.hoveredBody # Null
         THEN Outline(r, r.hoveredBody, "HOVER_COLOR")
         ELSE IF r.selectedBody # Null
           THEN Outline(r, r.selectedBody, "SELECT_COLOR")
           ELSE [r EXCEPT !.outlinedObjects = <<>>]

\* variant of manageOutlineEffects: the selected body is outlined also while
\* the camera follows it
manageOutlineEffects_whileFollowing(s) ==
  LET r == resetAllLineMaterials(s)
  IN IF r.selectedBody # Null
       THEN Outline(r, r.selectedBody, "SELECT_COLOR")
       ELSE IF r.hoveredBody # Null /\ ~r.isCameraFollowing
         THEN Outline(r, r.hoveredBody, "HOVER_COLOR")
         ELSE [r EXCEPT !.outlinedObjects = <<>>]

\* the callback of the watcher in manageOutlineEffects, lines 57-96
manageOutlineEffects(s) ==
  LET r == resetAllLineMaterials(s)
  IN IF r.isCameraFollowing
       THEN [r EXCEPT !.outlinedObjects = <<>>]
       ELSE IF r.selectedBody # Null
         THEN Outline(r, r.selectedBody, "SELECT_COLOR")
         ELSE IF r.hoveredBody # Null
           THEN Outline(r, r.hoveredBody, "HOVER_COLOR")
           ELSE [r EXCEPT !.outlinedObjects = <<>>]

\* variant of setupCameraWatchers: a deselection leaves the camera alone
setupCameraWatchers_focusOnly(s) ==
  IF s.selectedBody # Null THEN focusOnBody(s, s.selectedBody) ELSE s

\* the callback of the watcher in setupCameraWatchers, lines 170-177
setupCameraWatchers(s) ==
  IF s.selectedBody # Null THEN focusOnBody(s, s.selectedBody) ELSE resetCamera(s)

\* Vue's flush of the watchers a handler has triggered: old is the store the
\* handler started from, s the store it left.  The camera watcher was created
\* first (initBaseScene, line 118, before interactionManager.init, line 136)
\* and runs first; a watcher runs only if a source it watches has changed.
FlushWatchers(old, s) ==
  LET s1 == IF s.selectedBody # old.selectedBody THEN setupCameraWatchers(s) ELSE s
  IN IF <<s1.hoveredBody, s1.selectedBody, s1.isCameraFollowing>>
          # <<old.hoveredBody, old.selectedBody, old.isCameraFollowing>>
       THEN manageOutlineEffects(s1) ELSE s1

\* ------------------------------------------------------- animation loop
\* the simulated time only moves positions: where every position is at the
\* origin (unit = 0) one instant stands for all
Period == IF unit = 0 THEN 1 ELSE PeriodFrames

\* simulationManager.update: the orbit positions are a function of the
\* simulated time; the loop advances it before the call (lines 80-85)
simulationUpdate(s) ==
  Logged([s EXCEPT !.simulatedTime = (@ + 1) % Period], "simulationManager.update")

\* composer.render(), line 104
render(s) == Logged(s, "composer.render")

\* variant of animate: the camera follow update runs before the hover check
animate_cameraBeforeHover(s) ==
  render(checkHoverIntersection(cameraManagerUpdate(simulationUpdate(s))))

\* animate, lines 73-105 (controls.update and the zoom level, lines 94-101,
\* write none of the state modelled here)
animate(s) ==
  render(cameraManagerUpdate(checkHoverIntersection(simulationUpdate(s))))

\* ------------------------------------------------------- scene lifecycle
\* the dataset, in the order the loader walks it: the sun, a planet with a
\* satellite, and a planet after it
DatasetBodies == <<"sun", "earth", "moon", "mars">>

\* the mesh a load of component instance g creates for a body, and the pivot
\* createOrbit returns to it; both belong to the scene of instance g
Mesh(g, id) == [name |-> id, scene |-> g]
Pivot(g, id) == [name |-> id, scene |-> g]

\* the component instances
Instances == 1..MaxMounts

\* an instance before its onMounted hook has run
NotMounted ==
  [isSceneBaseInit |-> FALSE, isSceneContentsInit |-> FALSE,
   animationLoop |-> FALSE,
   solarSystemCreated |-> FALSE, pc |-> "idle",
   fetchFailed |-> FALSE, textureFailed |-> Null]

\* the lifecycle store
SceneCur ==
  [instance |-> instance, solarSystemData |-> solarSystemData,
   celestialBodies |-> celestialBodies, orbits |-> orbits,
   createdMeshes |-> createdMeshes, orbitalDataMap |-> orbitalDataMap,
   disposedMeshes |-> disposedMeshes, factoryMeshes |-> factoryMeshes,
   windowSize |-> windowSize, cameraAspect |-> cameraAspect,
   rendererSize |-> rendererSize, composerSize |-> composerSize,
   animationFrameId |-> animationFrameId,
   pendingFrames |-> pendingFrames, frame |-> FALSE]

\* the place of a body in the dataset
DatasetIndex(id) == CHOOSE i \in 1..Len(DatasetBodies) : DatasetBodies[i] = id

\* push on an array that is only searched by id or walked as a whole: the
\* entries are kept in the order of key
Push(array, entry, place) ==
  SubSeq(array, 1, place) \o <<entry>> \o SubSeq(array, place + 1, Len(array))

MeshKey(mesh) == mesh.scene * (Len(DatasetBodies) + 1) + DatasetIndex(mesh.name)
BodyKey(body) == DatasetIndex(body.id)
OrbitKey(orbit) == DatasetIndex(orbit.bodyId)

\* the number of entries with a smaller key than the entry pushed
MeshPlace(array, mesh) ==
  Cardinality({i \in 1..Len(array) : MeshKey(array[i]) < MeshKey(mesh)})
BodyPlace(array, body) ==
  Cardinality({i \in 1..Len(array) : BodyKey(array[i]) < BodyKey(body)})
OrbitPlace(array, orbit) ==
  Cardinality({i \in 1..Len(array) : OrbitKey(array[i]) < OrbitKey(orbit)})

\* _findBody, _findOrbit
FindEntry(registry, id) == \E i \in 1..Len(registry) : registry[i].id = id

\* registerCelestialBody, but a body is pushed also when its id is registered
registerCelestialBody_noLookup(r, id, mesh) ==
  [r EXCEPT !.celestialBodies = Push(@, [id |-> id, mesh |-> mesh],
                                    BodyPlace(@, [id |-> id, mesh |-> mesh]))]

\* registerCelestialBody, lines 267-288
registerCelestialBody(r, id, mesh) ==
  IF ~FindEntry(r.celestialBodies, id)
    THEN [r EXCEPT !.celestialBodies = Push(@, [id |-> id, mesh |-> mesh],
                                      BodyPlace(@, [id |-> id, mesh |-> mesh]))]
    ELSE r

\* the place of a pivot's first child before any simulation update: the
\* pivot's centre, where Object3D puts a new object (a time otherwise)
AtPivot == 0 - 1

\* the objects a pivot carries
Child(kind, id) == [kind |-> kind, of |-> id]

\* OrbitState, but orbitalHelperHost is put in front of the pivot's children
OrbitState_helperHostFirst(id, bodyId, pivot, children) ==
  [id |-> id, bodyId |-> bodyId, pivot |-> pivot,
   children |-> <<Child("helperHost", bodyId)>> \o children,
   helpers |-> {}, time |-> AtPivot, helperHostAt |-> AtPivot]

\* the entry registerOrbit pushes, lines 301-332: children are the pivot's
\* children when it is registered, orbitalHelperHost is added behind them; no
\* helper is shown; the pivot's first child is where it was constructed, and
\* so is orbitalHelperHost (only its rotation is set)
OrbitState(id, bodyId, pivot, children) ==
  [id |-> id, bodyId |-> bodyId, pivot |-> pivot,
   children |-> Append(children, Child("helperHost", bodyId)),
   helpers |-> {}, time |-> AtPivot, helperHostAt |-> AtPivot]

\* registerOrbit, but an orbit is pushed also when its id is registered
registerOrbit_noLookup(r, id, bodyId, pivot, children) ==
  [r EXCEPT !.orbits = Push(@, OrbitState(id, bodyId, pivot, children),
                              OrbitPlace(@, OrbitState(id, bodyId, pivot, children)))]

\* registerOrbit, lines 301-332
registerOrbit(r, id, bodyId, pivot, children) ==
  IF ~FindEntry(r.orbits, id)
    THEN [r EXCEPT !.orbits = Push(@, OrbitState(id, bodyId, pivot, children),
                              OrbitPlace(@, OrbitState(id, bodyId, pivot, children)))]
    ELSE r

\* the pivot's children when _createPlanet registers the orbit (lines 187-190):
\* the planet's system container, then the orbit line
PlanetPivotChildren(id) == <<Child("system", id), Child("line", id)>>

\* the pivot's children when _createSatellite registers the orbit (lines
\* 117-118): the satellite's mesh, then the orbit line
SatellitePivotChildren(id) == <<Child("mesh", id), Child("line", id)>>

\* the planets of the dataset, and the bodies a planet lists under moons: none,
\* a planet lists its satellites under satellites (Planet, part_007 line 71)
Planets == {"earth", "mars"}
Moons(planet) == {}

\* initialize of useSimulationManager, lines 416-440
simulationInitialize(r) ==
  IF r.solarSystemData = Null
    THEN r
    ELSE [r EXCEPT !.orbitalDataMap = Planets \cup UNION {Moons(planet) : planet \in Planets}]

\* the orbits part of update of useSimulationManager, lines 475-480, with
\* _updateOrbitPosition, lines 386-402: the first child of the pivot is put
\* where the orbit is at the time
updateOrbits(orbs, map, time) ==
  [i \in 1..Len(orbs) |->
     IF orbs[i].bodyId \in map /\ Len(orbs[i].children) > 0
       THEN [orbs[i] EXCEPT !.time = time]
       ELSE orbs[i]]

\* toggleOrbitAxisHelper and toggleOrbitGridHelper, lines 157-174, with
\* _toggleHelperVisibility: the helper is added to or removed from the
\* orbit's orbitalHelperHost
toggleOrbitHelper(r, id, helper) ==
  [r EXCEPT !.orbits =
     [i \in 1..Len(@) |->
        IF @[i].id = id
          THEN [@[i] EXCEPT !.helpers =
                  IF helper \in @ THEN @ \ {helper} ELSE @ \cup {helper}]
          ELSE @[i]]]

\* createdMeshes.value.push(mesh), in createSun and createCelestialBody
TrackMesh(r, mesh) == [r EXCEPT !.createdMeshes = Push(@, mesh, MeshPlace(@, mesh))]

\* new THREE.Mesh(geometry, material) in the factory, lines 143, 173 and 211
NewMesh(r, mesh) == [r EXCEPT !.factoryMeshes = @ \cup {mesh}]

\* the end of createCelestialBody and of createSun: the mesh is constructed
\* and pushed on createdMeshes
NewTrackedMesh(r, mesh) == TrackMesh(NewMesh(r, mesh), mesh)

\* the handles of frame requests; the browser never hands out the handle of a
\* pending request again
Handles == 1..MaxHandles
PendingHandles(r) == {f.handle : f \in r.pendingFrames}
CanRequestFrame(r) == PendingHandles(r) # Handles
FreeHandle(r) ==
  CHOOSE h \in Handles \ PendingHandles(r) :
    \A k \in Handles \ PendingHandles(r) : h <= k

\* animationFrameId = requestAnimationFrame(animate), line 75, in the loop of
\* instance g
requestAnimationFrame(r, g) ==
  [r EXCEPT !.animationFrameId = FreeHandle(r),
            !.pendingFrames = @ \cup {[handle |-> FreeHandle(r), loop |-> g]}]

\* start of useAnimationLoop, lines 68-108: animate is called at once; it
\* requests the next frame and stores the handle (line 75) before it runs the
\* frame (frame tells the action to run it)
start(r, g) ==
  [requestAnimationFrame(r, g) EXCEPT !.frame = TRUE]

\* stop of useAnimationLoop, lines 113-118
stop(r) ==
  IF r.animationFrameId # 0
    THEN [r EXCEPT !.pendingFrames = {f \in @ : f.handle # r.animationFrameId},
                   !.animationFrameId = 0]
    ELSE r

\* startAnimationLoop, but the initialization flags are not looked at
startAnimationLoop_unguarded(r, g) ==
  IF ~r.instance[g].animationLoop
    THEN start([r EXCEPT !.instance[g].animationLoop = TRUE], g)
    ELSE r

\* startAnimationLoop, lines 232-260
startAnimationLoop(r, g) ==
  IF /\ ~r.instance[g].animationLoop
     /\ r.instance[g].isSceneBaseInit
     /\ r.instance[g].isSceneContentsInit
    THEN start([r EXCEPT !.instance[g].animationLoop = TRUE], g)
    ELSE r

\* stopAnimationLoop, lines 265-268
stopAnimationLoop(r, g) ==
  [(IF r.instance[g].animationLoop THEN stop(r) ELSE r)
     EXCEPT !.instance[g].animationLoop = FALSE]

\* LoadReturned, but a load that failed does not start the frame loop
LoadReturned_noLoopAfterFailure(r, g) ==
  LET r1 == [simulationInitialize(r) EXCEPT
                      !.instance[g].isSceneContentsInit = TRUE,
                      !.instance[g].pc = "done"]
  IN IF r.instance[g].fetchFailed \/ r.instance[g].textureFailed # Null
       THEN r1
       ELSE startAnimationLoop(r1, g)

\* load has returned: the rest of initSceneContents (simulationManager
\* .initialize, lines 416-440, and the flag) and of initialize (lines 206-214)
LoadReturned(r, g) ==
  startAnimationLoop(
    [simulationInitialize(r) EXCEPT
              !.instance[g].isSceneContentsInit = TRUE,
              !.instance[g].pc = "done"],
    g)

\* the sizes the window takes: width and height in pixels
Sizes == {<<1920, 1080>>, <<1600, 900>>, <<800, 600>>}

\* width / height: the quotient, as a fraction in lowest terms
RECURSIVE Gcd(_, _)
Gcd(a, b) == IF b = 0 THEN a ELSE Gcd(b, a % b)
Aspect(size) == <<size[1] \div Gcd(size[1], size[2]), size[2] \div Gcd(size[1], size[2])>>

\* the camera is constructed with aspect 1 (line 61); there is no renderer and
\* no composer before initBaseScene
NoSize == <<0, 0>>
ConstructedAspect == <<1, 1>>

\* handleResize, but the composer keeps its size
handleResize_rendererOnly(r, g) ==
  IF ~r.instance[g].isSceneBaseInit
    THEN r
    ELSE [r EXCEPT !.cameraAspect = Aspect(r.windowSize),
                   !.rendererSize = r.windowSize]

\* handleResize, lines 219-227, of instance g, whose listener is registered
\* from initBaseScene to dispose
handleResize(r, g) ==
  IF ~r.instance[g].isSceneBaseInit
    THEN r
    ELSE [r EXCEPT !.cameraAspect = Aspect(r.windowSize),
                   !.rendererSize = r.windowSize,
                   !.composerSize = r.windowSize]

\* initialize up to its first await: initBaseScene (the canvas exists; the
\* renderer takes the window's size, line 105, the composer the renderer's,
\* usePostProcessing line 29, the camera the window's aspect, line 144),
\* initSceneContents, load, loadData up to fetch
initialize(r, g) ==
  [r EXCEPT !.instance[g].isSceneBaseInit = TRUE,
            !.instance[g].pc = "fetch",
            !.rendererSize = r.windowSize,
            !.composerSize = r.windowSize,
            !.cameraAspect = Aspect(r.windowSize)]

\* the fetch of the dataset settles; a failure is caught by loadData (lines
\* 84-111), which leaves data as it was; load goes on to createSun's texture
\* if there is data (lines 34-45)
FetchSettled(r, g, ok) ==
  LET r1 == IF ok THEN [r EXCEPT !.solarSystemData = "loaded"]
                  ELSE [r EXCEPT !.instance[g].fetchFailed = TRUE]
  IN IF r1.solarSystemData # Null
       THEN [r1 EXCEPT !.instance[g].pc = "sun"]
       ELSE LoadReturned(r1, g)

\* a texture load of instance g settles: the step of the loader from this
\* await to the next one; a rejected load is caught by load (line 42)
TextureSettled(r, g, ok) ==
  LET at == r.instance[g].pc
  IN IF ~ok THEN LoadReturned([r EXCEPT !.instance[g].textureFailed = at], g)
     ELSE IF at = "sun"
       \* createSun from line 168, _createSun, then createPlanet up to its texture
       THEN [registerCelestialBody(NewTrackedMesh(r, Mesh(g, "sun")), "sun", Mesh(g, "sun"))
               EXCEPT !.instance[g].pc = "earth"]
     ELSE IF at = "earth"
       \* createCelestialBody from line 92, createPlanet up to the cloud texture
       THEN [NewTrackedMesh(r, Mesh(g, "earth")) EXCEPT !.instance[g].pc = "earthClouds"]
     ELSE IF at = "earthClouds"
       \* createPlanet from line 201, _createPlanet, createSatellite up to its texture
       \* (the cloud mesh is constructed and added to the planet's, lines 211-214)
       THEN [registerOrbit(
               registerCelestialBody(NewMesh(r, Mesh(g, "EarthClouds")),
                                     "earth", Mesh(g, "earth")),
               "earth_orbit", "earth", Pivot(g, "earth"), PlanetPivotChildren("earth"))
               EXCEPT !.instance[g].pc = "moon"]
     ELSE IF at = "moon"
       \* createCelestialBody from line 92, _createSatellite, then the next
       \* planet's createPlanet up to its texture
       THEN [registerOrbit(
               registerCelestialBody(NewTrackedMesh(r, Mesh(g, "moon")), "moon", Mesh(g, "moon")),
               "moon_orbit", "moon", Pivot(g, "moon"), SatellitePivotChildren("moon"))
               EXCEPT !.instance[g].pc = "mars"]
       \* createCelestialBody from line 92, createPlanet, _createPlanet, the
       \* end of _createSolarSystem and of load
       ELSE LoadReturned(
              [registerOrbit(
                 registerCelestialBody(NewTrackedMesh(r, Mesh(g, "mars")), "mars", Mesh(g, "mars")),
                 "mars_orbit", "mars", Pivot(g, "mars"), PlanetPivotChildren("mars"))
                 EXCEPT !.instance[g].solarSystemCreated = TRUE],
              g)

\* cleanup of useCelestialBodyFactory, lines 294-306
cleanupCelestialBodies(r) ==
  [r EXCEPT !.disposedMeshes = @ \cup {r.createdMeshes[i] : i \in 1..Len(r.createdMeshes)},
            !.createdMeshes = <<>>]

\* dispose, lines 274-298
dispose(r, g) ==
  IF ~r.instance[g].isSceneBaseInit /\ ~r.instance[g].isSceneContentsInit
    THEN r
    ELSE [cleanupCelestialBodies(stopAnimationLoop(r, g)) EXCEPT
            !.instance[g].isSceneBaseInit = FALSE,
            !.instance[g].isSceneContentsInit = FALSE]

\* the registries after the load of instance g alone and the first frame
LoadedRegistry(g) ==
  [celestialBodies |-> [i \in 1..Len(DatasetBodies) |->
       [id |-> DatasetBodies[i], mesh |-> Mesh(g, DatasetBodies[i])]],
   orbits |-> updateOrbits(
                <<OrbitState("earth_orbit", "earth", Pivot(g, "earth"), PlanetPivotChildren("earth")),
                  OrbitState("moon_orbit", "moon", Pivot(g, "moon"), SatellitePivotChildren("moon")),
                  OrbitState("mars_orbit", "mars", Pivot(g, "mars"), PlanetPivotChildren("mars"))>>,
                Planets, 0)]

\* ----------------------------------------------------------------- actions
\* keys the keydown listener is modelled for
Keys == {"Space", "Escape", "KeyA"}

\* normalView outside a tactical round trip
NoView == [position |-> 0, target |-> 0, following |-> FALSE]

\* the resulting store becomes the state; normalView records the camera state
\* at an entry into tactical view that starts from the normal view
CommitCamera(s) ==
  /\ Len(s.resetTweens) <= MaxResetTweens
  /\ selectedBody' = s.selectedBody
  /\ hoveredBody' = s.hoveredBody
  /\ isCameraFollowing' = s.isCameraFollowing
  /\ isTacticalViewActive' = s.isTacticalViewActive
  /\ focusAnimation' = s.focusAnimation
  /\ tacticalAnimation' = s.tacticalAnimation
  /\ resetTweens' = s.resetTweens
  /\ cameraPosition' = s.cameraPosition
  /\ controlsTarget' = s.controlsTarget
  /\ lastTargetPosition' = s.lastTargetPosition
  /\ preTacticalCameraState' = s.preTacticalCameraState
  /\ simulatedTime' = s.simulatedTime
  /\ mouse' = s.mouse
  /\ outlinedObjects' = s.outlinedObjects
  /\ outlineColor' = s.outlineColor
  /\ lineMaterials' = s.lineMaterials
  /\ originalLineMaterials' = s.originalLineMaterials
  /\ log' = s.log
  /\ intersectionSearches' = s.intersectionSearches
  /\ calc' = calc
  /\ normalView' =
       IF /\ \E i \in 1..Len(s.log) : s.log[i] = "enterTacticalView"
          /\ ~InFlight(tacticalAnimation)
          /\ ~isTacticalViewActive
         THEN [position |-> cameraPosition, target |-> controlsTarget,
               following |-> isCameraFollowing]
         ELSE IF \/ InFlight(s.tacticalAnimation)
                 \/ s.isTacticalViewActive
                 \/ (s.log # <<>> /\ s.log[Len(s.log)] = "exit.onComplete")
           THEN normalView
           ELSE NoView
  /\ unit' = unit

\* a handler of the mounted scene leaves the lifecycle state alone
Commit(s) == CommitCamera(s) /\ UNCHANGED sceneVars

\* a handler ran to its end and Vue flushed the watchers it triggered
Step(s) == Commit(FlushWatchers(Cur, s))

\* window mousemove listener
MouseMove ==
  \E hit \in BodyOrNull : Over(hit) # mouse /\ Step(onMouseMove(Cur, Over(hit)))

\* window mousemove listener, the pointer over the bodies that have an orbit line
MouseMoveOverOrbits ==
  \E hit \in LineBodies \cup {Null} :
    Over(hit) # mouse /\ Step(onMouseMove(Cur, Over(hit)))

\* window click listener
Click == Step(onClick(Cur))

\* the keydown listener is called for one key
KeyPress(key) == Step(onKeyDown(Cur, key))

\* window keydown listener
KeyDown == \E key \in Keys : Step(onKeyDown(Cur, key))

\* the UI calls the registered toggle (useTacticalView.toggleTacticalView)
ToggleTacticalView == Step(toggleTacticalView(Cur))

\* GSAP's ticker renders the focus tween
GsapFocusTick == InFlight(focusAnimation) /\ Step(focusAnimationTick(Cur))

\* GSAP's ticker renders the tactical tween
GsapTacticalTick == InFlight(tacticalAnimation) /\ Step(tacticalAnimationTick(Cur))

\* GSAP's ticker renders a reset tween
GsapResetTick == \E i \in 1..Len(resetTweens) : Step(resetTweenTick(Cur, i))

\* the lifecycle store becomes the state; a loop that was started has run
\* its first frame, a requested frame has run
CommitScene(r) ==
  /\ instance' = r.instance
  /\ solarSystemData' = r.solarSystemData
  /\ celestialBodies' = r.celestialBodies
  /\ orbits' = IF r.frame
                 THEN updateOrbits(r.orbits, r.orbitalDataMap, animate(Cur).simulatedTime)
                 ELSE r.orbits
  /\ createdMeshes' = r.createdMeshes
  /\ factoryMeshes' = r.factoryMeshes
  /\ windowSize' = r.windowSize
  /\ cameraAspect' = r.cameraAspect
  /\ rendererSize' = r.rendererSize
  /\ composerSize' = r.composerSize
  /\ orbitalDataMap' = r.orbitalDataMap
  /\ disposedMeshes' = r.disposedMeshes
  /\ animationFrameId' = r.animationFrameId
  /\ pendingFrames' = r.pendingFrames
  /\ IF r.frame
       THEN CommitCamera(FlushWatchers(Cur, animate(Cur)))
       ELSE UNCHANGED cameraVars

\* requestAnimationFrame calls animate: a loop's requested frame runs; it
\* requests the next one and stores its handle (line 75) before anything else
Frame ==
  \E f \in pendingFrames :
    /\ CommitScene([requestAnimationFrame([SceneCur EXCEPT !.pendingFrames = @ \ {f}], f.loop)
                      EXCEPT !.frame = TRUE])
    /\ UNCHANGED <<mounted, mounts>>

\* the component is mounted: a new instance, onMounted calls initialize
Mount ==
  /\ mounted = 0
  /\ mounts < MaxMounts
  /\ mounts' = mounts + 1
  /\ mounted' = mounts + 1
  /\ CommitScene(initialize(SceneCur, mounts + 1))

\* the component is unmounted: onUnmounted calls dispose
Unmount ==
  /\ mounted # 0
  /\ mounted' = 0
  /\ mounts' = mounts
  /\ CommitScene(dispose(SceneCur, mounted))

\* the fetch of an instance's load settles
FetchDone ==
  \E g \in Instances, ok \in BOOLEAN :
    /\ instance[g].pc = "fetch"
    /\ UNCHANGED <<mounted, mounts>>
    /\ CommitScene(FetchSettled(SceneCur, g, ok))

\* a texture load of an instance's load settles
TextureDone ==
  \E g \in Instances, ok \in BOOLEAN :
    /\ instance[g].pc \in {"sun", "earth", "earthClouds", "moon", "mars"}
    /\ UNCHANGED <<mounted, mounts>>
    /\ CommitScene(TextureSettled(SceneCur, g, ok))


\* direct calls of the camera manager's returned functions (lines 268-278)
CallFocusOnBody == \E body \in Bodies : Step(focusOnBody(Cur, body))
CallEnterTacticalView == Step(enterTacticalView(Cur))
CallExitTacticalView == Step(exitTacticalView(Cur))
CallResetCamera == Step(resetCamera(Cur))

\* the scene is mounted and loaded, nothing has happened yet
InitStore ==
  /\ selectedBody = Null
  /\ hoveredBody = Null
  /\ isCameraFollowing = FALSE
  /\ isTacticalViewActive = FALSE
  /\ focusAnimation = NoFocusTween
  /\ tacticalAnimation = NoTacticalTween
  /\ resetTweens = <<>>
  /\ cameraPosition = cameraInitialPosition
  /\ controlsTarget = Origin
  /\ lastTargetPosition = 0
  /\ preTacticalCameraState = [position |-> 0, target |-> 0, wasFollowing |-> FALSE]
  /\ simulatedTime = 0
  /\ outlinedObjects = <<>>
  /\ outlineColor = "HOVER_COLOR"
  /\ lineMaterials = [line \in LineBodies |-> createOrbitLine]
  /\ originalLineMaterials = <<>>
  /\ log = <<>>
  /\ intersectionSearches = 0
  /\ normalView = NoView

\* no pure function is under study
NoCalc == [fn |-> "none"]

\* the same, the mouse off every object
InitScene == mouse = NoHit /\ calc = NoCalc /\ InitStore

\* the first instance is mounted and its load has completed
InitLoaded ==
  /\ mounted = 1
  /\ mounts = 1
  /\ instance = [g \in Instances |->
       IF g = 1
         THEN [isSceneBaseInit |-> TRUE, isSceneContentsInit |-> TRUE,
               animationLoop |-> TRUE,
               solarSystemCreated |-> TRUE, pc |-> "done",
               fetchFailed |-> FALSE, textureFailed |-> Null]
         ELSE NotMounted]
  /\ solarSystemData = "loaded"
  /\ celestialBodies = LoadedRegistry(1).celestialBodies
  /\ orbits = LoadedRegistry(1).orbits
  /\ createdMeshes = [i \in 1..Len(DatasetBodies) |-> Mesh(1, DatasetBodies[i])]
  /\ factoryMeshes = {Mesh(1, DatasetBodies[i]) : i \in 1..Len(DatasetBodies)}
                       \cup {Mesh(1, "EarthClouds")}
  /\ windowSize = <<1920, 1080>>
  /\ cameraAspect = Aspect(windowSize)
  /\ rendererSize = windowSize
  /\ composerSize = windowSize
  /\ orbitalDataMap = Planets
  /\ disposedMeshes = {}
  /\ animationFrameId = 1
  /\ pendingFrames = {[handle |-> 1, loop |-> 1]}

\* the page before the component is mounted for the first time
InitUnmounted ==
  /\ mounted = 0
  /\ mounts = 0
  /\ instance = [g \in Instances |-> NotMounted]
  /\ solarSystemData = Null
  /\ celestialBodies = <<>>
  /\ orbits = <<>>
  /\ createdMeshes = <<>>
  /\ factoryMeshes = {}
  /\ windowSize = <<1920, 1080>>
  /\ cameraAspect = ConstructedAspect
  /\ rendererSize = NoSize
  /\ composerSize = NoSize
  /\ orbitalDataMap = {}
  /\ disposedMeshes = {}
  /\ animationFrameId = 0
  /\ pendingFrames = {}

\* positions abstracted to one point
Init == unit = 0 /\ InitScene /\ InitLoaded

\* the application as wired by useSceneOrchestrator
Next ==
  \/ MouseMove
  \/ Click
  \/ KeyDown
  \/ ToggleTacticalView
  \/ GsapFocusTick
  \/ GsapTacticalTick
  \/ GsapResetTick
  \/ Frame

Spec == Init /\ [][Next]_vars

\* the application with GSAP's ticker: the ticker runs on its own
\* requestAnimationFrame loop and renders every active tween at each tick, so
\* a focus tween that stays in flight is rendered again; a click is on a body
\* or on empty space (which clears the selection as the Escape and Space keys
\* do), and the mouse moves off again before the next frame; a click on
\* empty space comes once the camera's earlier return has ended
ClickOnOrOff ==
  \E hit \in BodyOrNull :
    /\ hit = Null => resetTweens = <<>>
    /\ Step(onMouseMove(onClick(onMouseMove(Cur, Over(hit))), NoHit))

NextTicker ==
  \/ ClickOnOrOff
  \/ ToggleTacticalView
  \/ GsapFocusTick
  \/ GsapTacticalTick
  \/ GsapResetTick
  \/ Frame

SpecTicker == Init /\ [][NextTicker]_vars /\ WF_vars(GsapFocusTick)

\* the interaction manager with the pointer over the bodies that have an
\* orbit line (hover, selection and following changes only)
NextHighlight ==
  \/ MouseMoveOverOrbits
  \/ Click
  \/ KeyDown
  \/ GsapFocusTick
  \/ GsapResetTick
  \/ Frame

SpecHighlight == Init /\ [][NextHighlight]_vars

\* ----------------------------------------------------------------- numbers
\* A number of the source (an IEEE double) is kept to FractionBits binary
\* places: it is an integer count of 2^-FractionBits, and every operation
\* rounds its exact result to the nearest such number.
RECURSIVE Pow2(_)
Pow2(n) == IF n = 0 THEN 1 ELSE 2 * Pow2(n - 1)

\* the number 1
One == Pow2(FractionBits)

\* a whole number; a number of quarters
Num(n) == n * One
Quarters(n) == (n * One) \div 4

\* n / d to the nearest integer, d > 0
RoundDiv(n, d) == (2 * n + d) \div (2 * d)

Abs(x) == IF x < 0 THEN 0 - x ELSE x
Sign(x) == IF x < 0 THEN 0 - 1 ELSE 1

\* x * y: the whole part of y multiplies exactly, only the product with its
\* fraction is rounded
Mul(x, y) == x * (y \div One) + RoundDiv(x * (y % One), One)

\* rem / y for 0 <= rem < y, to bits binary places
RECURSIVE Places(_, _, _)
Places(rem, y, bits) ==
  IF bits = 0
    THEN IF 2 * rem >= y THEN 1 ELSE 0
    ELSE ((2 * rem) \div y) * Pow2(bits - 1) + Places((2 * rem) % y, y, bits - 1)

\* x / y, y # 0: x and y are counts of the same unit
Div(x, y) ==
  Sign(x) * Sign(y)
    * ((Abs(x) \div Abs(y)) * One + Places(Abs(x) % Abs(y), Abs(y), FractionBits))

\* Math.PI: pi to 20 binary places, and to the places a number is kept to
PiHiBits == 20
PiHi == 3294199
Pi == RoundDiv(PiHi, Pow2(PiHiBits - FractionBits))

\* Math.sin and Math.cos reduce their argument to k * pi/2 + d with
\* |d| <= pi/4 and evaluate a polynomial in d
Quadrant(x) == RoundDiv(2 * x, Pi)
Reduced(x) ==
  RoundDiv(x * Pow2(PiHiBits - FractionBits) - RoundDiv(Quadrant(x) * PiHi, 2),
           Pow2(PiHiBits - FractionBits))

SinKernel(d) ==
  LET d2 == Mul(d, d)
      d3 == Mul(d2, d)
      d5 == Mul(d3, d2)
  IN d - RoundDiv(d3, 6) + RoundDiv(d5, 120)

CosKernel(d) ==
  LET d2 == Mul(d, d)
      d4 == Mul(d2, d2)
      d6 == Mul(d4, d2)
  IN One - RoundDiv(d2, 2) + RoundDiv(d4, 24) - RoundDiv(d6, 720)

\* Math.sin
Sin(x) ==
  LET d == Reduced(x)
  IN CASE Quadrant(x) % 4 = 0 -> SinKernel(d)
       [] Quadrant(x) % 4 = 1 -> CosKernel(d)
       [] Quadrant(x) % 4 = 2 -> 0 - SinKernel(d)
       [] OTHER -> 0 - CosKernel(d)

\* Math.cos
Cos(x) ==
  LET d == Reduced(x)
  IN CASE Quadrant(x) % 4 = 0 -> CosKernel(d)
       [] Quadrant(x) % 4 = 1 -> 0 - SinKernel(d)
       [] Quadrant(x) % 4 = 2 -> 0 - CosKernel(d)
       [] OTHER -> SinKernel(d)

\* ------------------------------------------------------ orbital position
\* orbital periods in days, orbit radii in scene units, simulated times
MaxQuarters == 12
Periods == {Num(3), Num(5), Num(7), Quarters(109)}
Radii == {Num(1), Num(4)}
Times == {Quarters(n) : n \in 0..MaxQuarters}

\* _updateOrbitPosition, but the angular speed is pi / orbitalPeriod
updateOrbitPosition_halfSpeed(time, orbitalPeriod, semiMajorAxis) ==
  LET angularSpeed == Div(Pi, orbitalPeriod)
      angle == Mul(time, angularSpeed)
  IN [x |-> Mul(Cos(angle), semiMajorAxis), z |-> Mul(Sin(angle), semiMajorAxis)]

\* _updateOrbitPosition, lines 386-402: the position given to the pivot's
\* first child; semiMajorAxis is pivot.userData.orbitRadius
updateOrbitPosition(time, orbitalPeriod, semiMajorAxis) ==
  LET angularSpeed == Div(2 * Pi, orbitalPeriod)
      angle == Mul(time, angularSpeed)
  IN [x |-> Mul(Cos(angle), semiMajorAxis), z |-> Mul(Sin(angle), semiMajorAxis)]

\* the rest of the state stays as it is
OnlyCalc ==
  UNCHANGED <<selectedBody, hoveredBody, isCameraFollowing, isTacticalViewActive,
              focusAnimation, tacticalAnimation, resetTweens, cameraPosition,
              controlsTarget, lastTargetPosition, preTacticalCameraState,
              simulatedTime, mouse, outlinedObjects, outlineColor, lineMaterials,
              originalLineMaterials, log, intersectionSearches, normalView,
              unit, sceneVars>>

\* an orbit of some period and radius whose body is at the pivot's centre; the
\* simulated time of the next update
InitOrbit ==
  /\ unit = 0 /\ mouse = NoHit /\ InitStore /\ InitLoaded
  /\ calc \in [fn : {"updateOrbitPosition"}, orbitalPeriod : Periods,
               orbitRadius : Radii, time : Times, updates : {0},
               position : {[x |-> 0, z |-> 0]}, before : {[x |-> 0, z |-> 0]}]

\* update at the simulated time
UpdateOrbit ==
  /\ calc.fn = "updateOrbitPosition"
  /\ calc.updates = 0
  /\ calc' = [calc EXCEPT
       !.updates = 1,
       !.position = updateOrbitPosition(calc.time, calc.orbitalPeriod, calc.orbitRadius)]
  /\ OnlyCalc

\* update one orbital period later
UpdateOrbitAPeriodLater ==
  /\ calc.fn = "updateOrbitPosition"
  /\ calc.updates = 1
  /\ calc' = [calc EXCEPT
       !.updates = 2,
       !.before = calc.position,
       !.position = updateOrbitPosition(calc.time + calc.orbitalPeriod,
                                        calc.orbitalPeriod, calc.orbitRadius)]
  /\ OnlyCalc

NextOrbit ==
  \/ UpdateOrbit
  \/ UpdateOrbitAPeriodLater

SpecOrbit == InitOrbit /\ [][NextOrbit]_vars

\* --------------------------------------------------------- orbit radius
\* scaling.config.ts: the kilometres in an astronomical unit, 149597870.7, to
\* the whole kilometre, and the astronomical units in a scene unit, 0.004
kmPerAu == 149597871
orbitalDistanceAuPerUnit == RoundDiv(4 * One, 1000)

\* centre-to-centre distances in whole kilometres, from one kilometre to the
\* semi-major axis of Mars; scaled radii of central bodies, from none to the Sun's
DistancesKm ==
  {1, 1000, 18000, 40000, 384400, 57909050, 108208000, 149598023, 227939200}
ScaledRadii == {0, Quarters(1), Num(1), Quarters(5), Num(2), Num(15), Num(149)}

\* createOrbit, but the central body's radius is not added
createOrbit_noOffset(centerToCenterDistanceKm, centralBodyScaledRadius) ==
  LET planetOrbitalRadiusAu == Div(centerToCenterDistanceKm, kmPerAu)
      planetScaledOrbitalRadius == Div(planetOrbitalRadiusAu, orbitalDistanceAuPerUnit)
  IN [orbitRadius |-> planetScaledOrbitalRadius,
      planetScaledOrbitalRadius |-> planetScaledOrbitalRadius,
      centralBodyScaledRadiusOffset |-> centralBodyScaledRadius]

\* createOrbit, lines 40-68: the userData of the pivot it returns
createOrbit(centerToCenterDistanceKm, centralBodyScaledRadius) ==
  LET planetOrbitalRadiusAu == Div(centerToCenterDistanceKm, kmPerAu)
      planetScaledOrbitalRadius == Div(planetOrbitalRadiusAu, orbitalDistanceAuPerUnit)
      finalEffectiveScaledRadius == planetScaledOrbitalRadius + centralBodyScaledRadius
  IN [orbitRadius |-> finalEffectiveScaledRadius,
      planetScaledOrbitalRadius |-> planetScaledOrbitalRadius,
      centralBodyScaledRadiusOffset |-> centralBodyScaledRadius]

NoUserData ==
  [orbitRadius |-> 0, planetScaledOrbitalRadius |-> 0, centralBodyScaledRadiusOffset |-> 0]

\* a distance and a central body's scaled radius createOrbit is about to be
\* called with
InitRadius ==
  /\ unit = 0 /\ mouse = NoHit /\ InitStore /\ InitLoaded
  /\ calc \in [fn : {"createOrbit"}, centerToCenterDistanceKm : DistancesKm,
               centralBodyScaledRadius : ScaledRadii, created : {FALSE},
               userData : {NoUserData}]

CreateOrbit ==
  /\ calc.fn = "createOrbit"
  /\ ~calc.created
  /\ calc' = [calc EXCEPT
       !.created = TRUE,
       !.userData = createOrbit(calc.centerToCenterDistanceKm,
                                calc.centralBodyScaledRadius)]
  /\ OnlyCalc

NextRadius == CreateOrbit

SpecRadius == InitRadius /\ [][NextRadius]_vars

\* -------------------------------------------------- coordinate conversion
\* a result that is not a number
NaN == 0 - Pow2(30)

\* MathUtils.degToRad and MathUtils.radToDeg: a product with pi / 180 or 180 / pi
DEG2RAD == Div(Pi, Num(180))
RAD2DEG == Div(Num(180), Pi)
degToRad(degrees) == Mul(degrees, DEG2RAD)
radToDeg(radians) == Mul(radians, RAD2DEG)

\* Math.acos: the angle in [0, pi] whose cosine is nearest to c, found between
\* lo and hi; not a number for c outside [-1, 1]
RECURSIVE AcosBetween(_, _, _)
AcosBetween(c, lo, hi) ==
  IF hi - lo <= 1
    THEN IF Abs(Cos(lo) - c) <= Abs(Cos(hi) - c) THEN lo ELSE hi
    ELSE LET mid == (lo + hi) \div 2
         IN IF Cos(mid) > c THEN AcosBetween(c, mid, hi) ELSE AcosBetween(c, lo, mid)

Acos(c) == IF Abs(c) > One THEN NaN ELSE AcosBetween(c, 0, Pi)

\* Math.atan2 does not depend on the length of (x, y): the power of two that
\* brings the larger coordinate m > 0 above one half
RECURSIVE Exponent(_)
Exponent(m) == IF 2 * m <= One THEN 2 * Exponent(2 * m) ELSE 1

\* x * sin(a) - y * cos(a), which is zero at the direction of (x, y)
Across(y, x, a) == Mul(x, Sin(a)) - Mul(y, Cos(a))

RECURSIVE Atan2Between(_, _, _, _)
Atan2Between(y, x, lo, hi) ==
  IF hi - lo <= 1
    THEN IF Abs(Across(y, x, lo)) <= Abs(Across(y, x, hi)) THEN lo ELSE hi
    ELSE LET mid == (lo + hi) \div 2
         IN IF Across(y, x, mid) < 0
              THEN Atan2Between(y, x, mid, hi)
              ELSE Atan2Between(y, x, lo, mid)

\* Math.atan2: the direction of (x, y) in (-pi, pi], found in its quadrant
Atan2(y, x) ==
  IF y = 0
    THEN IF x >= 0 THEN 0 ELSE Pi
    ELSE LET e == Exponent(IF Abs(x) > Abs(y) THEN Abs(x) ELSE Abs(y))
             half == RoundDiv(Pi, 2)
         IN CASE y > 0 /\ x > 0 -> Atan2Between(y * e, x * e, 0, half)
              [] y > 0 /\ x <= 0 -> Atan2Between(y * e, x * e, half, Pi)
              [] y < 0 /\ x < 0 -> Atan2Between(y * e, x * e, 0 - Pi, 0 - half)
              [] OTHER -> Atan2Between(y * e, x * e, 0 - half, 0)

\* useCoordinateConversion, lines 51-75; every operation on a result that is
\* not a number gives a result that is not a number
useCoordinateConversion(elements, newPlaneInclination) ==
  IF elements.orbitalInclination = NaN \/ elements.longAscendingNode = NaN
    THEN [newOrbitalInclination |-> NaN, newLongAscendingNode |-> NaN]
    ELSE
      LET iOld == degToRad(elements.orbitalInclination)
          longOld == degToRad(elements.longAscendingNode)
          iNewPlane == degToRad(newPlaneInclination)
          cosINew == Mul(Cos(iOld), Cos(iNewPlane))
                       + Mul(Mul(Sin(iOld), Sin(iNewPlane)), Cos(longOld))
          iNew == Acos(cosINew)
          y == Mul(Sin(longOld), Sin(iOld))
          x == Mul(Sin(iNewPlane), Cos(iOld))
                 - Mul(Mul(Cos(iNewPlane), Sin(iOld)), Cos(longOld))
          longNew == Atan2(y, x)
      IN [newOrbitalInclination |-> IF iNew = NaN THEN NaN ELSE radToDeg(iNew),
          newLongAscendingNode |-> radToDeg(longNew)]

\* inclinations in [0, 180), longitudes in [0, 360) and tilts, in degrees
Inclinations == {Num(0), Num(10), Num(45), Num(90), Num(120)}
Longitudes == {Num(0), Num(30), Num(90), Num(180), Num(225), Num(300)}
Tilts == {Num(7), Num(23), Num(45)}

\* the elements of an orbit and the tilt of the plane they are about to be
\* converted to
InitConversion ==
  /\ unit = 0 /\ mouse = NoHit /\ InitStore /\ InitLoaded
  /\ calc \in [fn : {"useCoordinateConversion"},
               elements : [orbitalInclination : Inclinations,
                           longAscendingNode : Longitudes],
               newPlaneInclination : Tilts, conversions : {0},
               converted : {[newOrbitalInclination |-> 0, newLongAscendingNode |-> 0]}]

\* the elements are converted from plane A to plane B
ConvertToPlane ==
  /\ calc.fn = "useCoordinateConversion"
  /\ calc.conversions = 0
  /\ calc' = [calc EXCEPT
       !.conversions = 1,
       !.converted = useCoordinateConversion(calc.elements, calc.newPlaneInclination)]
  /\ OnlyCalc

\* the result is converted back with the tilt negated
ConvertBack ==
  /\ calc.fn = "useCoordinateConversion"
  /\ calc.conversions = 1
  /\ calc' = [calc EXCEPT
       !.conversions = 2,
       !.converted = useCoordinateConversion(
                       [orbitalInclination |-> calc.converted.newOrbitalInclination,
                        longAscendingNode |-> calc.converted.newLongAscendingNode],
                       0 - calc.newPlaneInclination)]
  /\ OnlyCalc

NextConversion ==
  \/ ConvertToPlane
  \/ ConvertBack

SpecConversion == InitConversion /\ [][NextConversion]_vars

\* ------------------------------------------------------------ wireframe
\* _findBody, line 110: the place in celestialBodies of the first body with
\* the id, 0 for none
findBody(id) ==
  IF \E i \in 1..Len(celestialBodies) : celestialBodies[i].id = id
    THEN CHOOSE i \in 1..Len(celestialBodies) :
           /\ celestialBodies[i].id = id
           /\ \A j \in 1..(i - 1) : celestialBodies[j].id # id
    ELSE 0

\* toggleBodyWireframe, lines 150-171: v holds globalWireframe, the isWireframe
\* flag of every registered body and the wireframe flag of its mesh material
toggleBodyWireframe(v, id) ==
  LET body == findBody(id)
  IN IF body # 0
       THEN [v EXCEPT !.isWireframe[body] = ~v.isWireframe[body],
                      !.wireframe[body] = ~v.isWireframe[body]]
       ELSE v

\* celestialBodies.value.forEach(body => toggleBodyWireframe(body.id)), from
\* the i-th body on
RECURSIVE ToggleEachFrom(_, _)
ToggleEachFrom(v, i) ==
  IF i > Len(celestialBodies)
    THEN v
    ELSE ToggleEachFrom(toggleBodyWireframe(v, celestialBodies[i].id), i + 1)

\* toggleGlobalWireframe, lines 230-237
toggleGlobalWireframe(v) ==
  ToggleEachFrom([v EXCEPT !.globalWireframe = ~v.globalWireframe], 1)

\* the ids the debug menu can toggle, and one that is not registered
WireframeIds == RegisteredBodies \cup {"pluto"}

\* the loaded scene: globalWireframe is false and registerCelestialBody gave
\* every body isWireframe false
InitWireframe ==
  /\ unit = 0 /\ mouse = NoHit /\ InitStore /\ InitLoaded
  /\ calc = [fn |-> "wireframe", globalWireframe |-> FALSE,
             isWireframe |-> [i \in 1..Len(DatasetBodies) |-> FALSE],
             wireframe |-> [i \in 1..Len(DatasetBodies) |-> FALSE],
             call |-> [name |-> "none", id |-> Null]]

ToggleBodyWireframe ==
  \E id \in WireframeIds :
    /\ calc.fn = "wireframe"
    /\ calc' = [toggleBodyWireframe(calc, id) EXCEPT
         !.call = [name |-> "toggleBodyWireframe", id |-> id]]
    /\ OnlyCalc

ToggleGlobalWireframe ==
  /\ calc.fn = "wireframe"
  /\ calc' = [toggleGlobalWireframe(calc) EXCEPT
       !.call = [name |-> "toggleGlobalWireframe", id |-> Null]]
  /\ OnlyCalc

NextWireframe ==
  \/ ToggleBodyWireframe
  \/ ToggleGlobalWireframe

SpecWireframe == InitWireframe /\ [][NextWireframe]_vars

\* ------------------------------------------------------------ registries
\* the orbits the loader registers: the id, the body and the pivot's children
OrbitBodies == {"earth", "moon", "mars"}
OrbitIdOf(bodyId) ==
  CASE bodyId = "earth" -> "earth_orbit"
    [] bodyId = "moon" -> "moon_orbit"
    [] OTHER -> "mars_orbit"
PivotChildren(bodyId) ==
  IF bodyId = "moon" THEN SatellitePivotChildren(bodyId) ELSE PlanetPivotChildren(bodyId)

\* the scenes whose loader registers: the scene mounted first and the one
\* mounted after it
LoaderScenes == {g \in Instances : g <= 2}

\* pivot.add(orbitalHelperHost), line 317 of registerOrbit: the pivots that
\* carry a helper host
registerOrbitGraph(helperHosts, r, id, pivot) ==
  IF ~FindEntry(r.orbits, id) THEN helperHosts \cup {pivot} ELSE helperHosts

\* nothing is registered: celestialBodies and orbits are ref([])
InitRegistry ==
  /\ unit = 0 /\ mouse = NoHit /\ InitStore /\ InitUnmounted
  /\ calc = [fn |-> "register", helperHosts |-> {},
             call |-> [name |-> "none", id |-> Null, scene |-> 0], present |-> FALSE]

\* the rest of the state stays as it is
OnlyRegistries ==
  UNCHANGED <<selectedBody, hoveredBody, isCameraFollowing, isTacticalViewActive,
              focusAnimation, tacticalAnimation, resetTweens, cameraPosition,
              controlsTarget, lastTargetPosition, preTacticalCameraState,
              simulatedTime, mouse, outlinedObjects, outlineColor, lineMaterials,
              originalLineMaterials, log, intersectionSearches, normalView,
              unit, mounted, mounts, instance, solarSystemData, createdMeshes,
              orbitalDataMap, disposedMeshes, factoryMeshes, windowSize,
              cameraAspect, rendererSize, composerSize, animationFrameId,
              pendingFrames>>

\* registerCelestialBody(id, name, description, mesh) with a mesh of scene g
CallRegisterCelestialBody ==
  \E i \in 1..Len(DatasetBodies), g \in LoaderScenes :
    LET id == DatasetBodies[i]
    IN /\ calc.fn = "register"
       /\ celestialBodies' = registerCelestialBody(SceneCur, id, Mesh(g, id)).celestialBodies
       /\ orbits' = orbits
       /\ calc' = [calc EXCEPT
            !.call = [name |-> "registerCelestialBody", id |-> id, scene |-> g],
            !.present = FindEntry(celestialBodies, id)]
       /\ OnlyRegistries

\* registerOrbit(id, name, bodyId, pivot, radius, inclination, lineMesh) with
\* a pivot of scene g
CallRegisterOrbit ==
  \E bodyId \in OrbitBodies, g \in LoaderScenes :
    LET id == OrbitIdOf(bodyId)
    IN /\ calc.fn = "register"
       /\ orbits' = registerOrbit(SceneCur, id, bodyId, Pivot(g, bodyId),
                                  PivotChildren(bodyId)).orbits
       /\ celestialBodies' = celestialBodies
       /\ calc' = [calc EXCEPT
            !.helperHosts = registerOrbitGraph(@, SceneCur, id, Pivot(g, bodyId)),
            !.call = [name |-> "registerOrbit", id |-> id, scene |-> g],
            !.present = FindEntry(orbits, id)]
       /\ OnlyRegistries

NextRegistry ==
  \/ CallRegisterCelestialBody
  \/ CallRegisterOrbit

SpecRegistry == InitRegistry /\ [][NextRegistry]_vars

\* objects of the loaded scene a ray can cross
SceneObjects ==
  {BodyMesh(body) : body \in {"sun", "earth", "mars"}}
    \cup {OrbitLine(body) : body \in {"earth", "mars"}}
    \cup {CloudMesh, Starfield}

\* what a ray can cross: up to MaxHits objects, nearest first
Rays ==
  UNION {{ray \in [1..n -> SceneObjects] :
            \A i, j \in 1..n : i # j => ray[i] # ray[j]} : n \in 0..MaxHits}

\* the loaded scene with the mouse anywhere
InitIntersect ==
  unit = 0 /\ mouse \in Rays /\ calc = NoCalc /\ InitStore /\ InitLoaded

\* the intersection search under its callers: the click listener and the
\* per-frame hover check; a key clears the selection
NextIntersect ==
  \/ Click
  \/ KeyDown
  \/ Frame

SpecIntersect == InitIntersect /\ [][NextIntersect]_vars

\* the camera manager under any caller of the functions it returns: the calls
\* come in any order, between GSAP ticks and frames
NextApi ==
  \/ CallFocusOnBody
  \/ CallEnterTacticalView
  \/ CallExitTacticalView
  \/ ToggleTacticalView
  \/ CallResetCamera
  \/ GsapFocusTick
  \/ GsapTacticalTick
  \/ GsapResetTick
  \/ Frame

SpecApi == Init /\ [][NextApi]_vars

\* start of a loop object is called (useAnimationLoop returns start and stop)
CallStart ==
  \E g \in Instances :
    /\ instance[g].animationLoop
    /\ CanRequestFrame(SceneCur)
    /\ CommitScene(start(SceneCur, g))
    /\ UNCHANGED <<mounted, mounts>>

\* stop of a loop object is called
CallStop ==
  \E g \in Instances :
    /\ instance[g].animationLoop
    /\ CommitScene(stop(SceneCur))
    /\ UNCHANGED <<mounted, mounts>>

\* the loop's start and stop called on the loop of the loaded scene, next to
\* the camera manager's functions
NextLoopApi ==
  \/ CallStart
  \/ CallStop
  \/ CallFocusOnBody
  \/ CallEnterTacticalView
  \/ CallExitTacticalView
  \/ ToggleTacticalView
  \/ CallResetCamera
  \/ GsapFocusTick
  \/ GsapTacticalTick
  \/ GsapResetTick
  \/ Frame

SpecLoopApi == Init /\ [][NextLoopApi]_vars

\* a click on a body: the mouse moves there, clicks and moves off the bodies
\* again before the next frame
ClickAt ==
  \E hit \in Bodies : Step(onMouseMove(onClick(onMouseMove(Cur, Over(hit))), NoHit))

\* the camera's path between bodies and the tactical view: positions on the
\* axis, the pointer only selects bodies
InitCamera == unit = 1 /\ InitScene /\ InitLoaded

NextCamera ==
  \/ ClickAt
  \/ ToggleTacticalView
  \/ GsapFocusTick
  \/ GsapTacticalTick
  \/ Frame

SpecCamera == InitCamera /\ [][NextCamera]_vars

\* createdLines of useOrbitFactory (line 20): createOrbitLine pushes the line
\* it creates (line 99), and the loader creates a body's orbit line in the
\* step that registers its orbit, which is the step that constructs the
\* cloud mesh for earth and the body's mesh for the moon and mars; nothing
\* calls cleanupLines (lines 106-128), so no line is ever taken off the list
\* or disposed
createdLines ==
  {[line |-> bodyId, scene |-> g] : bodyId \in OrbitBodies, g \in Instances} \cap
    {[line |-> (IF m.name = "EarthClouds" THEN "earth" ELSE m.name), scene |-> m.scene] :
       m \in factoryMeshes}
disposedLines == {}

\* the window listeners of the interaction manager are removed by its dispose
\* (lines 322-326): a click is handled only while the scene is mounted
ClickWhileMounted == mounted # 0 /\ ClickAt

\* the overlay's tactical-view switch, while the scene is mounted
ToggleTacticalViewWhileMounted == mounted # 0 /\ ToggleTacticalView

\* the loaded scene is used and then unmounted; GSAP's ticker is global and
\* goes on rendering every tween that was not killed
NextDispose ==
  \/ ClickWhileMounted
  \/ ToggleTacticalViewWhileMounted
  \/ GsapFocusTick
  \/ GsapTacticalTick
  \/ Frame
  \/ Unmount

SpecDispose == InitCamera /\ [][NextDispose]_vars

\* a switch of the orbit's row in the overlay toggles its axes helper
ToggleOrbitAxisHelper ==
  \E i \in 1..Len(orbits) :
    /\ CommitScene(toggleOrbitHelper(SceneCur, orbits[i].id, "axes"))
    /\ UNCHANGED <<mounted, mounts>>

\* a switch of the orbit's row in the overlay toggles its grid helper
ToggleOrbitGridHelper ==
  \E i \in 1..Len(orbits) :
    /\ CommitScene(toggleOrbitHelper(SceneCur, orbits[i].id, "grid"))
    /\ UNCHANGED <<mounted, mounts>>

\* the assembly of the scene of a mounted component, the frames of its loop
\* and the helper switches of the orbits registered so far
NextAssembly ==
  \/ Mount
  \/ FetchDone
  \/ TextureDone
  \/ Frame
  \/ ToggleOrbitAxisHelper
  \/ ToggleOrbitGridHelper

\* the mount/unmount cycles of the scene component and the loads they start
InitLifecycle == unit = 0 /\ InitScene /\ InitUnmounted

NextLifecycle ==
  \/ Mount
  \/ Unmount
  \/ FetchDone
  \/ TextureDone
  \/ Frame

SpecLifecycle == InitLifecycle /\ [][NextLifecycle]_vars

\* the window is resized: the browser calls the resize listener of the
\* mounted scene
WindowResize ==
  \E size \in Sizes \ {windowSize} :
    /\ CommitScene(
         IF mounted # 0
           THEN handleResize([SceneCur EXCEPT !.windowSize = size], mounted)
           ELSE [SceneCur EXCEPT !.windowSize = size])
    /\ UNCHANGED <<mounted, mounts>>

\* the window is resized while scenes are mounted, loaded, rendered and unmounted
NextResize ==
  \/ WindowResize
  \/ Mount
  \/ Unmount
  \/ FetchDone
  \/ TextureDone
  \/ Frame

SpecResize == Init /\ [][NextResize]_vars

\* one scene's assembly with the helper switches
SpecAssembly == InitLifecycle /\ [][NextAssembly]_vars

\* ------------------------------------------------------------------ claims
\* the calls of the last handler, as a set
Called == {log[i] : i \in 1..Len(log)}

\* the camera animations that are in flight
AnimationsInFlight ==
  (IF InFlight(focusAnimation) THEN 1 ELSE 0)
  + (IF InFlight(tacticalAnimation) THEN 1 ELSE 0)
  + Len(resetTweens)

C2_OneOfFocusAndTacticalInFlight ==
  ~(InFlight(focusAnimation) /\ InFlight(tacticalAnimation))

\* C3: every camera animation that is still in flight, the reset animation
\* included, is cancelled before the next one starts, so at no time do two
\* animations write the camera position and the orbit target.
C3_OneCameraAnimationInFlight ==
  AnimationsInFlight <= 1

\* C4: hoveredBody is null whenever selectedBody is non-null.
C4_NoHoverWhileSelected ==
  selectedBody # Null => hoveredBody = Null

\* C5 (as stated): whenever selectedBody is non-null, outlinedObjects is
\* exactly the selected body's mesh, whatever hoveredBody holds.
C5_SelectedAlwaysOutlined ==
  selectedBody # Null => outlinedObjects = <<MeshName(selectedBody)>>

\* C5 (amended): whenever selectedBody is non-null and the camera is not
\* following, outlinedObjects is exactly the selected body's mesh, whatever
\* hoveredBody holds; while the camera follows the selected body nothing is
\* outlined.
C5_SelectedOutlinedUnlessFollowing ==
  selectedBody # Null =>
    outlinedObjects = IF isCameraFollowing THEN <<>> ELSE <<MeshName(selectedBody)>>

\* a body is selected while another one is still recorded as hovered
C5_SelectedWithOtherHovered ==
  /\ selectedBody # Null
  /\ hoveredBody \notin {Null, selectedBody}
  /\ ~isCameraFollowing
  /\ outlinedObjects = <<MeshName(selectedBody)>>

\* the calls animate makes, in the order of lines 73-105
FrameCalls ==
  <<"simulationManager.update", "checkHoverIntersection",
    "cameraManager.update", "composer.render">>

\* C6: a frame tick runs the simulation update, the hover check, the camera
\* follow update and the render in this order, each exactly once.
C6_FrameOrder ==
  (\E i \in 1..Len(FrameCalls) : FrameCalls[i] \in Called) => log = FrameCalls

\* a frame has run while the camera follows a moving body
C6_FrameWhileFollowing ==
  /\ log = FrameCalls
  /\ isCameraFollowing
  /\ selectedBody = "earth"

\* C7: when an exit from tactical view completes, the camera position, the
\* orbit target and the following flag are those of the moment tactical view
\* was entered from the normal view, also when toggleTacticalView was invoked
\* again while the entry animation was in flight.
C7_ExitRestoresNormalView ==
  (log # <<>> /\ log[Len(log)] = "exit.onComplete") =>
    /\ cameraPosition = normalView.position
    /\ controlsTarget = normalView.target
    /\ isCameraFollowing = normalView.following

\* C8 (as stated): a click that hits no body sets selectedBody to null and
\* makes resetCamera run.
C8_EmptyClickResetsCamera ==
  ("onClick" \in Called /\ mouse = NoHit) =>
    (selectedBody = Null /\ "resetCamera" \in Called)

\* C8 (amended): a click that hits no body sets selectedBody to null; if a
\* body was selected, it makes resetCamera run, which cancels any focus
\* animation in flight before the reset animation starts; if no body was
\* selected, resetCamera does not run.
C8_EmptyClickResetsIfSelected ==
  [][(Click /\ mouse = NoHit) =>
       /\ selectedBody' = Null
       /\ ("resetCamera" \in {log'[i] : i \in 1..Len(log')}) <=> (selectedBody # Null)
       /\ selectedBody # Null =>
            /\ focusAnimation' = NoFocusTween
            /\ InFlight(focusAnimation) =>
                 \E i, j \in 1..Len(log') :
                   /\ i < j
                   /\ log'[i] = "focusAnimation.kill"
                   /\ log'[j] = "resetCamera"
            /\ resetTweens' = Append(resetTweens,
                 [progress |-> 0, startCamPos |-> 0, startTargetPos |-> 0])]_vars

\* a click on empty space has cancelled a focus animation and reset the camera
C8_EmptyClickCancelledFocus ==
  /\ "onClick" \in Called
  /\ mouse = NoHit
  /\ "focusAnimation.kill" \in Called
  /\ "resetCamera" \in Called
  /\ resetTweens # <<>>

\* C9: when resetCamera has returned, no focus or tactical animation is in
\* flight, both module-level references are null and isCameraFollowing and
\* isTacticalViewActive are false; a flag is set to true only by the
\* completion callback of an animation that is in flight, so none that
\* resetCamera found in flight sets it afterwards.
C9_ResetLeavesNothingBehind ==
  /\ []("resetCamera" \in Called =>
          /\ focusAnimation = NoFocusTween
          /\ tacticalAnimation = NoTacticalTween
          /\ ~isCameraFollowing
          /\ ~isTacticalViewActive)
  /\ [][/\ (~isCameraFollowing /\ isCameraFollowing') =>
            \/ InFlight(focusAnimation) /\ GsapFocusTick
            \/ InFlight(tacticalAnimation) /\ GsapTacticalTick
        /\ (~isTacticalViewActive /\ isTacticalViewActive') =>
            InFlight(tacticalAnimation) /\ GsapTacticalTick]_vars

\* resetCamera has cancelled a tactical animation that was in flight
C9_ResetCancelledTactical ==
  /\ "resetCamera" \in Called
  /\ "tacticalAnimation.kill" \in Called
  /\ ~InFlight(tacticalAnimation)

\* C10: once the load of the mounted instance has created the solar system,
\* every entry of celestialBodies and of orbits refers to a mesh or pivot of
\* the mounted instance's scene and each body of the dataset is registered
\* exactly once, so no entry is left over from a disposed scene.
C10_RegistriesOfMountedScene ==
  (mounted # 0 /\ instance[mounted].solarSystemCreated) =>
    /\ \A i \in 1..Len(celestialBodies) : celestialBodies[i].mesh.scene = mounted
    /\ \A i \in 1..Len(orbits) : orbits[i].pivot.scene = mounted
    /\ \A b \in 1..Len(DatasetBodies) :
         Cardinality({i \in 1..Len(celestialBodies) :
                        celestialBodies[i].id = DatasetBodies[b]}) = 1

\* the meshes the factory has created for instance g
CreatedBy(g) ==
  {m \in {createdMeshes[i] : i \in 1..Len(createdMeshes)} \cup disposedMeshes :
     m.scene = g}

\* C11: when the texture load of a planet or satellite fails, only that
\* body's subtree is skipped: every body that comes after it in the dataset
\* (here the planet after the failed planet or satellite) is still created.
C11_LaterBodiesCreatedAfterTextureFailure ==
  \A g \in Instances :
    (instance[g].pc = "done" /\ instance[g].textureFailed \in {"earth", "earthClouds", "moon"})
      => Mesh(g, "mars") \in CreatedBy(g)

\* C12: a load whose data fetch or parse failed adds no body to the scene or
\* to the registries, also when an earlier load had succeeded.
C12_FailedFetchAddsNothing ==
  \A g \in Instances :
    instance[g].fetchFailed => CreatedBy(g) = {}

\* the load of instance g met an assembly failure: its fetch failed or the
\* creation of one of its bodies failed
AssemblyFailed(g) ==
  instance[g].fetchFailed \/ instance[g].textureFailed # Null

\* C13: after an assembly failure (the data fetch or a body creation failed)
\* the initialization of the mounted scene still finishes and its frame loop
\* is started and keeps a frame requested, whatever the registries hold
C13_LoopRunsAfterAssemblyFailure ==
  \A g \in Instances :
    (AssemblyFailed(g) /\ instance[g].pc = "done" /\ instance[g].isSceneBaseInit)
      => /\ instance[g].isSceneContentsInit
         /\ instance[g].animationLoop
         /\ \E f \in pendingFrames : f.loop = g

\* a scene whose assembly was cut short by a failed texture has its loop
\* running over a partly filled registry
C13_LoopOverPartialScene ==
  \E g \in Instances :
    /\ instance[g].textureFailed = "moon"
    /\ instance[g].isSceneBaseInit
    /\ \E f \in pendingFrames : f.loop = g
    /\ log = FrameCalls
    /\ \E i \in 1..Len(celestialBodies) : celestialBodies[i].mesh = Mesh(g, "earth")

\* C18: stop cancels the pending frame request through the stored handle:
\* when stop has returned no frame request is pending, so no frame tick runs
\* until start is called again; a stop with no stored handle changes nothing
C18_NoFrameAfterStop ==
  [][CallStop => /\ pendingFrames' = {}
                 /\ animationFrameId = 0 => UNCHANGED vars]_vars

\* the registered orbits of a body
OrbitsOf(bodyId) == {i \in 1..Len(orbits) : orbits[i].bodyId = bodyId}

\* C14: in every reachable state, also after an assembly cut short by a
\* failed body creation, each registered orbit's bodyId is the id of a
\* registered body and each registered body other than the sun has exactly
\* one registered orbit
C14_RegistriesCrossReferenced ==
  /\ \A i \in 1..Len(orbits) : orbits[i].bodyId \in RegisteredBodies
  /\ \A id \in RegisteredBodies \ {"sun"} : Cardinality(OrbitsOf(id)) = 1

\* an assembly cut short at the moon has left earth and its orbit registered,
\* and a later scene has been mounted over these registries
C14_PartialAssemblyThenRemount ==
  /\ instance[1].textureFailed = "moon"
  /\ mounted = 2
  /\ instance[2].pc = "done"
  /\ OrbitsOf("earth") # {}
  /\ OrbitsOf("mars") # {}

C16_EveryOrbitMovedEachUpdate ==
  [][Frame => \A i \in 1..Len(orbits') :
                /\ orbits'[i].bodyId \in orbitalDataMap'
                /\ orbits'[i].time = simulatedTime']_vars

\* C17: a camera update performed while Following moves the camera by
\* exactly the displacement of the selected body's world position since the
\* previous frame and sets the orbit target to the body's current world
\* position, however Following was entered; an update performed while not
\* Following changes neither
C17_FollowsByFrameDisplacement ==
  [][Frame =>
       IF isCameraFollowing /\ selectedBody # Null
         THEN /\ cameraPosition' - cameraPosition =
                   WorldPosition(selectedBody, simulatedTime')
                     - WorldPosition(selectedBody, simulatedTime)
              /\ controlsTarget' = WorldPosition(selectedBody, simulatedTime')
         ELSE /\ cameraPosition' = cameraPosition
              /\ controlsTarget' = controlsTarget]_vars

\* C19: a single call of the body factory's cleanup (dispose calls it when
\* the component is unmounted) disposes the geometry and material of every
\* mesh the factory has created and leaves its tracking list empty
C19_CleanupDisposesEveryMesh ==
  [][Unmount => /\ createdMeshes' = <<>>
                /\ factoryMeshes \subseteq disposedMeshes']_vars

\* C20: one invocation of the resize handler sets the camera aspect ratio to
\* width/height and both the renderer and the post-processing composer to
\* that width and height before it returns, so no frame is rendered with the
\* new aspect and an old size or the reverse
C20_ResizeSetsAspectAndSizesTogether ==
  /\ [][(WindowResize /\ mounted # 0) =>
          /\ cameraAspect' = Aspect(windowSize')
          /\ rendererSize' = windowSize'
          /\ composerSize' = windowSize']_vars
  /\ [][Frame =>
          /\ cameraAspect = Aspect(rendererSize)
          /\ composerSize = rendererSize]_vars

\* the window was resized to 800 x 600 while a scene is mounted, and a frame
\* has been rendered since
C20_Resized800x600 ==
  /\ windowSize = <<800, 600>>
  /\ mounted # 0
  /\ cameraAspect = <<4, 3>>
  /\ composerSize = <<800, 600>>
  /\ log = FrameCalls

\* C21: pressing Escape sets selectedBody and hoveredBody to null in every
\* state; pressing Space sets them to null only when a body is selected and
\* the camera is Following, and otherwise changes neither
C21_EscapeAndSpaceClearSelection ==
  [][/\ KeyPress("Escape") => (selectedBody' = Null /\ hoveredBody' = Null)
     /\ KeyPress("Space") =>
          IF selectedBody # Null /\ isCameraFollowing
            THEN selectedBody' = Null /\ hoveredBody' = Null
            ELSE UNCHANGED <<selectedBody, hoveredBody>>]_vars

\* a key press has cleared a selection: the camera watcher has reset the camera
C21_KeyClearedSelection ==
  /\ "onKeyDown" \in Called
  /\ "resetCamera" \in Called
  /\ selectedBody = Null
  /\ hoveredBody = Null


\* the orbit lines whose material is not the one createOrbitLine gave them
RestyledLines == {line \in LineBodies : lineMaterials[line] # createOrbitLine}

\* the orbit lines that carry highlightLine's opacity
HighlightedLines ==
  {line \in LineBodies : lineMaterials[line].opacity = HighlightOpacity}

\* C22: every orbit line other than the line of the currently outlined body
\* has exactly the colour and opacity it had before it was first highlighted
\* (those createOrbitLine gave it), and at most one orbit line is highlighted
\* at a time
C22_OnlyOutlinedBodysLineRestyled ==
  /\ \A line \in LineBodies :
       outlinedObjects # <<MeshName(line)>> => lineMaterials[line] = createOrbitLine
  /\ Cardinality(HighlightedLines) <= 1
  /\ Cardinality(RestyledLines) <= 1

\* both lines have been highlighted before, one of them in the selection
\* colour; now only the hovered body's line is highlighted
C22_SecondLineHighlightedAfterFirstRestored ==
  /\ DOMAIN originalLineMaterials = LineBodies
  /\ hoveredBody = "mars"
  /\ outlinedObjects = <<MeshName("mars")>>
  /\ lineMaterials["mars"].opacity = HighlightOpacity
  /\ lineMaterials["earth"] = createOrbitLine
  /\ "resetCamera" \in Called

\* C23: a hover check made while a body is selected runs no intersection
\* search and leaves hoveredBody null; one made while nothing is selected
\* searches once and sets hoveredBody to the body under the mouse, or to null
\* when there is none
C23_HoverCheckSuppressedBySelection ==
  [][Frame =>
       IF selectedBody # Null
         THEN intersectionSearches' = 0 /\ hoveredBody' = Null
         ELSE /\ intersectionSearches' = 1
              /\ \E hit \in BodyOrNull : mouse = Over(hit) /\ hoveredBody' = hit]_vars

\* a frame has run over a selected body with the mouse on a body: the hover
\* check was made, without a search, and nothing is hovered
C23_HoverCheckedWhileSelected ==
  /\ "checkHoverIntersection" \in Called
  /\ selectedBody # Null
  /\ mouse # NoHit
  /\ intersectionSearches = 0
  /\ hoveredBody = Null

\* the body a hit belongs to: the registered body whose id the object
\* carries, or the registered body a registered orbit whose line the object
\* is names as its bodyId; null for any other object and for the starfield
BodyOfHit(object) ==
  IF object.top = "starfield"
    THEN Null
    ELSE IF object.id \in RegisteredBodies
      THEN object.id
      ELSE IF \E i \in 1..Len(orbits) :
                object.id = orbits[i].id /\ orbits[i].bodyId \in RegisteredBodies
        THEN LET i == CHOOSE i \in 1..Len(orbits) : object.id = orbits[i].id
             IN orbits[i].bodyId
        ELSE Null

\* the body of the nearest hit that belongs to one, or null
NearestResolving ==
  LET hits == {i \in 1..Len(mouse) : BodyOfHit(mouse[i]) # Null}
  IN IF hits = {}
       THEN Null
       ELSE BodyOfHit(mouse[CHOOSE i \in hits : \A j \in hits : i <= j])

\* C24: the intersection search returns the body of the nearest hit that
\* resolves (a registered body's mesh to that body, an orbit line to the body
\* the orbit names), skipping the hits that resolve to nothing and the
\* starfield, and null when no hit resolves: a click selects that body, a
\* hover check with nothing selected hovers it
C24_SearchReturnsNearestResolvingHit ==
  [][/\ Click => selectedBody' = NearestResolving
     /\ (Frame /\ selectedBody = Null) => hoveredBody' = NearestResolving]_vars

\* a click through the starfield and the cloud layer onto the orbit line of
\* mars has selected mars
C24_ClickThroughToOrbitLine ==
  /\ "onClick" \in Called
  /\ mouse = <<Starfield, CloudMesh, OrbitLine("mars")>>
  /\ selectedBody = "mars"

\* C25: whenever isCameraFollowing is true, outlinedObjects is empty and no
\* orbit line is highlighted, whatever hoveredBody and selectedBody are; this
\* holds from the step in which the focus animation completes
C25_NothingOutlinedWhileFollowing ==
  isCameraFollowing => (outlinedObjects = <<>> /\ RestyledLines = {})

\* the focus animation on the earth has just completed while the earth was
\* still hovered; its line had been highlighted
C25_FocusCompletedOverHoveredBody ==
  /\ "focus.onComplete" \in Called
  /\ isCameraFollowing
  /\ selectedBody = "earth"
  /\ hoveredBody = "earth"
  /\ "earth" \in DOMAIN originalLineMaterials

\* C26: after every simulation update, the helper-alignment host of each
\* registered orbit is where the body that orbit carries is (both are children
\* of the orbit's pivot: the same place in it is the same world position)
C26_HelperHostAtBodyAfterUpdate ==
  [][Frame => \A i \in 1..Len(orbits') :
                orbits'[i].helperHostAt = orbits'[i].time]_vars

\* the rounding error the angle and the trigonometric functions can leave in
\* a coordinate, in units of the last place: the angular speed is rounded
\* once and multiplied by a time that differs by the period (period / 2),
\* both products, both function values and the product with the radius are
\* rounded (5), all scaled by the orbit radius
PeriodTolerance ==
  (calc.orbitRadius * ((calc.orbitalPeriod + Num(10)) \div (2 * One) + 1)) \div One + 1

\* C27 (as stated): the position computed at t + P is identical to the
\* position computed at t
C27_PositionIdenticalAfterPeriod ==
  (calc.fn = "updateOrbitPosition" /\ calc.updates = 2) => calc.position = calc.before

\* C27 (amended): the position computed at t + P equals the position computed
\* at t up to the rounding error of the computation
C27_PositionPeriodicUpToRounding ==
  (calc.fn = "updateOrbitPosition" /\ calc.updates = 2) =>
    /\ Abs(calc.position.x - calc.before.x) <= PeriodTolerance
    /\ Abs(calc.position.z - calc.before.z) <= PeriodTolerance

\* a body has been placed at a time after 0 and one period later, a quarter
\* of the way round its orbit: the two positions differ in the last places
C27_PeriodLaterInLastPlaces ==
  /\ calc.fn = "updateOrbitPosition"
  /\ calc.updates = 2
  /\ calc.time > 0
  /\ calc.position # calc.before
  /\ Abs(calc.position.x) < calc.position.z
SmallestScaledKm == kmPerAu \div (2 * One) + 1

LongitudeDistance(a, b) ==
  LET d == Abs(a - b) % Num(360)
  IN IF d > Num(180) THEN Num(360) - d ELSE d

\* what the rounding of a conversion and its inverse can amount to, in degrees
RoundTripTolerance == Num(5)

\* C29: converting an inclination in [0, 180) and a longitude in [0, 360) from
\* plane A to plane B with tilt T and converting the result back with tilt -T
\* returns the original inclination and longitude within tolerance
C29_RoundTripReturnsOriginal ==
  (calc.fn = "useCoordinateConversion" /\ calc.conversions = 2) =>
    /\ calc.converted.newOrbitalInclination # NaN
    /\ Abs(calc.converted.newOrbitalInclination - calc.elements.orbitalInclination)
         <= RoundTripTolerance
    /\ LongitudeDistance(calc.converted.newLongAscendingNode,
                         calc.elements.longAscendingNode) <= RoundTripTolerance

\* C30: after toggleGlobalWireframe the isWireframe flag of every registered
\* body equals the new value of globalWireframe, whatever per-body wireframe
\* toggles were made before it
C30_BodiesFollowGlobalWireframe ==
  (calc.fn = "wireframe" /\ calc.call.name = "toggleGlobalWireframe") =>
    \A i \in 1..Len(celestialBodies) : calc.isWireframe[i] = calc.globalWireframe

\* no two entries of a registry share an id
UniqueIds(registry) ==
  \A i, j \in 1..Len(registry) : registry[i].id = registry[j].id => i = j

\* C31: after any sequence of registerCelestialBody and registerOrbit calls no
\* two entries of celestialBodies share an id and no two entries of orbits
\* share an id; a registration whose id is already present changes neither
\* the registries nor the scene graph
C31_RegistriesKeepIdsUnique ==
  [][calc'.fn = "register" =>
       /\ UniqueIds(celestialBodies') /\ UniqueIds(orbits')
       /\ calc'.present =>
            /\ celestialBodies' = celestialBodies
            /\ orbits' = orbits
            /\ calc'.helperHosts = calc.helperHosts]_vars

\* an orbit was registered again under its id with the pivot of another scene,
\* and the registries hold every body and orbit of the dataset
C31_RegisteredAgainWithOtherPivot ==
  /\ calc.fn = "register" /\ calc.call.name = "registerOrbit" /\ calc.present
  /\ Len(celestialBodies) = Len(DatasetBodies) /\ Len(orbits) = Cardinality(OrbitBodies)
  /\ \E i \in 1..Len(orbits) :
       orbits[i].id = calc.call.id /\ orbits[i].pivot.scene # calc.call.scene

\* C32: isCameraFollowing and isTacticalViewActive are never both true, in any
\* state reachable by any interleaving of focusOnBody, enterTacticalView,
\* exitTacticalView, toggleTacticalView, resetCamera and animation completions
C32_NeverFollowingInTacticalView == ~(isCameraFollowing /\ isTacticalViewActive)

\* the tactical view was entered from Following, and its entry animation has
\* just completed
C32_TacticalViewEnteredFromFollowing ==
  /\ isTacticalViewActive /\ ~isCameraFollowing
  /\ preTacticalCameraState.wasFollowing
  /\ "enter.onComplete" \in Called

\* C33: whenever isCameraFollowing is true, selectedBody is non-null: once the
\* watcher on selectedBody has handled a cleared selection, no pending
\* animation or tactical-view restore sets the camera back to Following with
\* nothing selected
C33_FollowingOnlyWithSelection == isCameraFollowing => selectedBody # Null

\* the selection was cleared while a tactical animation was in flight that was
\* started from Following: the watcher's resetCamera killed it and the camera
\* does not follow
C33_SelectionClearedDuringTacticalAnimation ==
  /\ selectedBody = Null /\ ~isCameraFollowing
  /\ preTacticalCameraState.wasFollowing
  /\ "resetCamera" \in Called /\ "tacticalAnimation.kill" \in Called

\* C34: after the orchestrator's dispose nothing that belongs to the disposed
\* scene acts any more: no callback of a camera animation started before
\* dispose writes the camera transform, isCameraFollowing,
\* isTacticalViewActive or outlinedObjects, and a later change of selectedBody
\* triggers no camera command of the disposed camera manager
C34_NothingActsAfterDispose ==
  [][mounted = 0 =>
       /\ cameraPosition' = cameraPosition
       /\ controlsTarget' = controlsTarget
       /\ isCameraFollowing' = isCameraFollowing
       /\ isTacticalViewActive' = isTacticalViewActive
       /\ outlinedObjects' = outlinedObjects
       /\ selectedBody' # selectedBody =>
            {log'[i] : i \in 1..Len(log')} \cap {"focusOnBody", "resetCamera"} = {}]_vars

\* C35: frame ticks of a scene run only between the completion of its
\* initialization and its dispose: a frame is requested only for a loop whose
\* scene has both the base scene and the scene contents initialized and is
\* the mounted one, at most one frame loop has a frame requested at a time,
\* and none after dispose, also when dispose is called while the scene load
\* is still in flight
C35_FramesOnlyOfInitializedMountedScene ==
  /\ \A f \in pendingFrames :
       /\ instance[f.loop].isSceneBaseInit
       /\ instance[f.loop].isSceneContentsInit
       /\ instance[f.loop].animationLoop
       /\ f.loop = mounted
  /\ Cardinality(pendingFrames) <= 1
  /\ mounted = 0 => pendingFrames = {}

\* a scene was disposed while its load was in flight; the load has returned
\* since and has set its contents flag, and the scene mounted after it has
\* its loop running
C35_LoadReturnedAfterDispose ==
  /\ mounted = 2
  /\ instance[1].pc = "done"
  /\ ~instance[1].isSceneBaseInit /\ instance[1].isSceneContentsInit
  /\ ~instance[1].animationLoop
  /\ \E f \in pendingFrames : f.loop = 2

\* C36: after the orchestrator's dispose every body mesh and every orbit line
\* created for that scene has been disposed and both factories' tracking
\* lists are empty, including resources whose creation was still in flight
\* when dispose ran (stated for the time no scene is mounted, when every
\* scene has been disposed)
C36_EverythingDisposedAfterDispose ==
  (mounted = 0 /\ mounts > 0) =>
    /\ createdMeshes = <<>>
    /\ createdLines = {}
    /\ factoryMeshes \subseteq disposedMeshes
    /\ createdLines \subseteq disposedLines

\* the watcher of the selection has just called focusOnBody: a body was selected
JustSelected == "focusOnBody" \in Called

\* a tactical-view or reset command has just been issued (a deselection makes
\* the watcher call resetCamera)
CommandIssued ==
  Called \cap {"enterTacticalView", "exitTacticalView", "resetCamera"} # {}

\* C37: if a body is selected and afterwards the selection does not change
\* and no tactical-view or reset command is issued, the focus animation
\* eventually completes and isCameraFollowing becomes true and stays true
\* (from every selection on: the animation completes into a Following that
\* lasts, or a command is issued later, or bodies are selected again and again)
C37_SelectionLeadsToLastingFollowing ==
  \/ <>[](isCameraFollowing /\ ~InFlight(focusAnimation))
  \/ JustSelected ~> CommandIssued
  \/ []<>JustSelected

\* the focus animation of the selected body has completed into Following
C37_FocusCompletedIntoFollowing ==
  /\ selectedBody # Null
  /\ isCameraFollowing
  /\ "focus.onComplete" \in Called
  /\ ~InFlight(focusAnimation)

====
